---- MODULE Spec2Model ----
(***************************************************************************)
(* Model of the monitor_ai_agent session-analysis pipeline: text          *)
(* extraction, the prompt and workflow classifiers, task-type inference   *)
(* and the two metric aggregators.                                        *)
(*                                                                         *)
(* A text is a sequence of characters, each character a one-character     *)
(* string.  The regular expressions of the source are transcribed as      *)
(* syntax trees and run by a backtracking matcher that follows the        *)
(* ECMAScript priority order (greedy quantifiers, leftmost alternative).  *)
(* Numbers are IEEE-754 doubles in the source: Math.round((a / b) * c) is  *)
(* computed with the two roundings of double arithmetic, and a result     *)
(* with one or two decimals is kept as its count of tenths or hundredths. *)
(***************************************************************************)
EXTENDS Integers, Sequences, FiniteSets, TLC

\* ------------------------------------------------------------------------
\* Characters
\* ------------------------------------------------------------------------

NL == "\n"

UpperSeq == << "A","B","C","D","E","F","G","H","I","J","K","L","M",
               "N","O","P","Q","R","S","T","U","V","W","X","Y","Z" >>
LowerSeq == << "a","b","c","d","e","f","g","h","i","j","k","l","m",
               "n","o","p","q","r","s","t","u","v","w","x","y","z" >>

Range(s) == { s[k] : k \in DOMAIN s }

Digits == { "0","1","2","3","4","5","6","7","8","9" }

\* \w of a regular expression without the u flag
WordChars == Range(UpperSeq) \cup Range(LowerSeq) \cup Digits \cup { "_" }

\* \s, restricted to the white space the model's texts contain
WhiteSpace == { " ", "\n", "\t", "\r" }

\* what . does not match and what ^ follows under the m flag
LineTerminators == { "\n", "\r" }

\* String.prototype.toLowerCase on one character
LowerChar(c) ==
    IF \E k \in DOMAIN UpperSeq : UpperSeq[k] = c
    THEN LowerSeq[CHOOSE k \in DOMAIN UpperSeq : UpperSeq[k] = c]
    ELSE c

toLowerCase(t) == [ k \in DOMAIN t |-> LowerChar(t[k]) ]

\* String.prototype.trim
RECURSIVE TrimLeft(_)
TrimLeft(t) ==
    IF t = << >> THEN << >>
    ELSE IF t[1] \in WhiteSpace THEN TrimLeft(Tail(t)) ELSE t

RECURSIVE TrimRight(_)
TrimRight(t) ==
    IF t = << >> THEN << >>
    ELSE IF t[Len(t)] \in WhiteSpace THEN TrimRight(SubSeq(t, 1, Len(t) - 1)) ELSE t

trim(t) == TrimRight(TrimLeft(t))

\* Array.prototype.join of a list of texts
RECURSIVE join(_, _)
join(texts, sep) ==
    IF texts = << >> THEN << >>
    ELSE IF Len(texts) = 1 THEN texts[1]
    ELSE texts[1] \o sep \o join(Tail(texts), sep)

\* String.prototype.split on a one-character separator
RECURSIVE split(_, _)
split(t, sep) ==
    IF \A k \in DOMAIN t : t[k] # sep THEN << t >>
    ELSE LET k == CHOOSE i \in DOMAIN t : t[i] = sep /\ \A j \in 1..(i - 1) : t[j] # sep
         IN  << SubSeq(t, 1, k - 1) >> \o split(SubSeq(t, k + 1, Len(t)), sep)

\* String.prototype.includes
stringIncludes(t, sub) ==
    \E i \in 0..(Len(t) - Len(sub)) : \A j \in DOMAIN sub : t[i + j] = sub[j]

\* String(n) of a natural number
RECURSIVE decimal(_)
decimal(n) ==
    LET digit == << "0", "1", "2", "3", "4", "5", "6", "7", "8", "9" >>[(n % 10) + 1]
    IN  IF n < 10 THEN << digit >> ELSE decimal(n \div 10) \o << digit >>

\* ------------------------------------------------------------------------
\* Regular expressions
\*
\*   <<"str", chars>>         a literal
\*   <<"set", S>>             one character of S        [...] \w \s \d
\*   <<"nset", S>>            one character not in S    [^...] \S
\*   <<"dot">>                .
\*   <<"cat", <<r1, ...>>>>   r1 r2 ...
\*   <<"alt", <<r1, ...>>>>   r1 | r2 | ...
\*   <<"rep", r, lo, hi>>     greedy r{lo,hi}; hi = -1 is unbounded
\*   <<"lazy", r, lo, hi>>    lazy r{lo,hi}?
\*   <<"bol">>                ^
\*   <<"wb">>                 \b
\*   <<"nla", r>>             (?!r)
\*
\* flags is a subset of {"i", "m", "s"}.
\* ------------------------------------------------------------------------

Str(chars) == << "str", chars >>
Set(S) == << "set", S >>
NSet(S) == << "nset", S >>
Dot == << "dot" >>
Cat(rs) == << "cat", rs >>
Alt(rs) == << "alt", rs >>
Rep(r, lo, hi) == << "rep", r, lo, hi >>
Lazy(r, lo, hi) == << "lazy", r, lo, hi >>
Star(r) == Rep(r, 0, -1)
Plus(r) == Rep(r, 1, -1)
Opt(r) == Rep(r, 0, 1)
Bol == << "bol" >>
WordB == << "wb" >>
NotAhead(r) == << "nla", r >>

Canon(c, flags) == IF "i" \in flags THEN LowerChar(c) ELSE c

\* a list without its repeated entries, first occurrences kept in order
Uniq(s) ==
    LET firsts == { k \in DOMAIN s : \A j \in 1..(k - 1) : s[j] # s[k] }
        nth(n) == CHOOSE k \in firsts : Cardinality({ j \in firsts : j <= k }) = n
    IN  [ n \in 1..Cardinality(firsts) |-> s[nth(n)] ]

IsWordAt(t, i) == i >= 1 /\ i <= Len(t) /\ t[i] \in WordChars

RECURSIVE Ends(_, _, _, _)
RECURSIVE EndsFrom(_, _, _, _, _)
RECURSIVE CatEnds(_, _, _, _, _)
RECURSIVE AltEnds(_, _, _, _, _)
RECURSIVE RepEnds(_, _, _, _, _, _, _)
RECURSIVE CharRepEnds(_, _, _, _, _, _, _)
RECURSIVE RepFrom(_, _, _, _, _, _, _, _)

\* The positions after the matches of re that start at position i of t, in
\* the order in which backtracking tries them.
Ends(re, t, i, flags) ==
    CASE re[1] = "str" ->
           LET n == Len(re[2]) IN
           IF i + n - 1 <= Len(t)
              /\ \A k \in 1..n : Canon(t[i + k - 1], flags) = Canon(re[2][k], flags)
           THEN << i + n >> ELSE << >>
      [] re[1] = "set" ->
           IF i <= Len(t)
              /\ \E c \in re[2] : Canon(c, flags) = Canon(t[i], flags)
           THEN << i + 1 >> ELSE << >>
      [] re[1] = "nset" ->
           IF i <= Len(t)
              /\ ~ \E c \in re[2] : Canon(c, flags) = Canon(t[i], flags)
           THEN << i + 1 >> ELSE << >>
      [] re[1] = "dot" ->
           IF i <= Len(t) /\ ("s" \in flags \/ t[i] \notin LineTerminators)
           THEN << i + 1 >> ELSE << >>
      [] re[1] = "cat" -> CatEnds(re[2], 1, t, << i >>, flags)
      [] re[1] = "alt" -> Uniq(AltEnds(re[2], 1, t, i, flags))
      [] re[1] = "rep" -> RepEnds(re[2], re[3], re[4], TRUE, t, i, flags)
      [] re[1] = "lazy" -> RepEnds(re[2], re[3], re[4], FALSE, t, i, flags)
      [] re[1] = "bol" ->
           IF i = 1 \/ ("m" \in flags /\ t[i - 1] \in LineTerminators)
           THEN << i >> ELSE << >>
      [] re[1] = "wb" ->
           IF IsWordAt(t, i - 1) # IsWordAt(t, i) THEN << i >> ELSE << >>
      [] re[1] = "nla" ->
           IF Ends(re[2], t, i, flags) = << >> THEN << i >> ELSE << >>

\* the ends of re from each of the positions starts[k..], in order
EndsFrom(re, t, starts, k, flags) ==
    IF k > Len(starts) THEN << >>
    ELSE Ends(re, t, starts[k], flags) \o EndsFrom(re, t, starts, k + 1, flags)

CatEnds(parts, k, t, starts, flags) ==
    IF k > Len(parts) \/ starts = << >> THEN starts
    ELSE CatEnds(parts, k + 1, t, Uniq(EndsFrom(parts[k], t, starts, 1, flags)), flags)

AltEnds(alts, k, t, i, flags) ==
    IF k > Len(alts) THEN << >>
    ELSE Ends(alts[k], t, i, flags) \o AltEnds(alts, k + 1, t, i, flags)

\* whether re is one character wide: a class, a negated class or the dot
IsCharRe(re) == re[1] \in { "set", "nset", "dot" }

\* r{lo,hi} of a one-character r: the run of matching characters from i on,
\* cut at hi, gives every end; the longest comes first when greedy
CharRepEnds(r, lo, hi, greedy, t, i, flags) ==
    LET cap == IF hi = -1 THEN Len(t) + 1 - i ELSE hi
        run == CHOOSE n \in 0..cap :
                 /\ \A k \in 0..(n - 1) : Ends(r, t, i + k, flags) # << >>
                 /\ n = cap \/ Ends(r, t, i + n, flags) = << >>
    IN  IF run < lo THEN << >>
        ELSE [ n \in 1..(run - lo + 1) |->
                 IF greedy THEN i + run - (n - 1) ELSE i + lo + (n - 1) ]

\* An iteration that matches the empty string is not repeated.
RepEnds(r, lo, hi, greedy, t, i, flags) ==
    IF IsCharRe(r) THEN CharRepEnds(r, lo, hi, greedy, t, i, flags)
    ELSE
    LET stop == IF lo = 0 THEN << i >> ELSE << >>
        js   == SelectSeq(Ends(r, t, i, flags), LAMBDA j : j > i)
        more == IF hi = 0 THEN << >>
                ELSE RepFrom(r, IF lo = 0 THEN 0 ELSE lo - 1,
                             IF hi = -1 THEN -1 ELSE hi - 1, greedy, t, js, 1, flags)
    IN  Uniq(IF greedy THEN more \o stop ELSE stop \o more)

RepFrom(r, lo, hi, greedy, t, js, k, flags) ==
    IF k > Len(js) THEN << >>
    ELSE RepEnds(r, lo, hi, greedy, t, js[k], flags)
         \o RepFrom(r, lo, hi, greedy, t, js, k + 1, flags)

\* RegExp.prototype.test
Test(re, flags, t) == \E i \in 1..(Len(t) + 1) : Ends(re, t, i, flags) # << >>

\* ------------------------------------------------------------------------
\* Characters that cannot be written inside a TLA+ string
\* ------------------------------------------------------------------------

BackTick  == "U+0060"
DQuote    == "U+0022"
BackSlash == "U+005C"
Bullet    == "U+2022"
aAcute    == "U+00E1"
eAcute    == "U+00E9"
oAcute    == "U+00F3"
uAcute    == "U+00FA"
nTilde    == "U+00F1"

AnyChar == NSet({})

\* ------------------------------------------------------------------------
\* prompt-analyzer: the detectors
\* ------------------------------------------------------------------------

\* /^[\s]*[-*•]\s|^\d+\.\s|^#{1,3}\s/m
hasStructureRe ==
    Alt(<< Cat(<< Bol, Star(Set(WhiteSpace)), Set({ "-", "*", Bullet }), Set(WhiteSpace) >>),
           Cat(<< Bol, Plus(Set(Digits)), Str(<< "." >>), Set(WhiteSpace) >>),
           Cat(<< Bol, Rep(Str(<< "#" >>), 1, 3), Set(WhiteSpace) >>) >>)

hasStructure(text) == Test(hasStructureRe, { "m" }, text)

\* /```[\s\S]*?```|^ {4}\S/m
hasCodeBlocksRe ==
    Alt(<< Cat(<< Str(<< BackTick, BackTick, BackTick >>), Lazy(AnyChar, 0, -1),
                  Str(<< BackTick, BackTick, BackTick >>) >>),
           Cat(<< Bol, Rep(Str(<< " " >>), 4, 4), NSet(WhiteSpace) >>) >>)

hasCodeBlocks(text) == Test(hasCodeBlocksRe, { "m" }, text)

\* /ejemplo:|por ejemplo|e\.g\.|for example|like this:|such as:/i
hasExamplesRe ==
    Alt(<< Str(<< "e", "j", "e", "m", "p", "l", "o", ":" >>),
          Str(<< "p", "o", "r", " ", "e", "j", "e", "m", "p", "l", "o" >>),
          Str(<< "e", ".", "g", "." >>),
          Str(<< "f", "o", "r", " ", "e", "x", "a", "m", "p", "l", "e" >>),
          Str(<< "l", "i", "k", "e", " ", "t", "h", "i", "s", ":" >>),
          Str(<< "s", "u", "c", "h", " ", "a", "s", ":" >>) >>)

hasExamples(text) == Test(hasExamplesRe, { "i" }, text)

\* /\*\*\w|\*\w|__\w|`\w.*`|\[.*\]\(/
hasFormattingRe ==
    Alt(<< Cat(<< Str(<< "*", "*" >>), Set(WordChars) >>),
           Cat(<< Str(<< "*" >>), Set(WordChars) >>),
           Cat(<< Str(<< "_", "_" >>), Set(WordChars) >>),
           Cat(<< Str(<< BackTick >>), Set(WordChars), Star(Dot), Str(<< BackTick >>) >>),
           Cat(<< Str(<< "[" >>), Star(Dot), Str(<< "]", "(" >>) >>) >>)

hasFormatting(text) == Test(hasFormattingRe, {}, text)

\* /[\/\\][\w.-]+\.\w{1,5}\b/
hasFileReferencesRe ==
    Cat(<< Set({ "/", BackSlash }), Plus(Set(WordChars \cup { ".", "-" })),
           Str(<< "." >>), Rep(Set(WordChars), 1, 5), WordB >>)

hasFileReferences(text) == Test(hasFileReferencesRe, {}, text)

\* /`[^`]+`|```/
hasCodeReferencesRe ==
    Alt(<< Cat(<< Str(<< BackTick >>), Plus(NSet({ BackTick })), Str(<< BackTick >>) >>),
           Str(<< BackTick, BackTick, BackTick >>) >>)

hasCodeReferences(text) == Test(hasCodeReferencesRe, {}, text)

\* /https?:\/\/\S+/
hasUrlsRe ==
    Cat(<< Str(<< "h", "t", "t", "p" >>), Opt(Str(<< "s" >>)), Str(<< ":", "/", "/" >>),
           Plus(NSet(WhiteSpace)) >>)

hasUrls(text) == Test(hasUrlsRe, {}, text)

\* /actúa como|eres un|compórtate como|act as|you are a|pretend|imagine you/i
hasRolePromptingRe ==
    Alt(<< Str(<< "a", "c", "t", uAcute, "a", " ", "c", "o", "m", "o" >>),
          Str(<< "e", "r", "e", "s", " ", "u", "n" >>),
          Str(<< "c", "o", "m", "p", oAcute, "r", "t", "a", "t", "e", " ", "c", "o", "m", "o" >>),
          Str(<< "a", "c", "t", " ", "a", "s" >>),
          Str(<< "y", "o", "u", " ", "a", "r", "e", " ", "a" >>),
          Str(<< "p", "r", "e", "t", "e", "n", "d" >>),
          Str(<< "i", "m", "a", "g", "i", "n", "e", " ", "y", "o", "u" >>) >>)

hasRolePrompting(text) == Test(hasRolePromptingRe, { "i" }, text)

\* /no uses|sin usar|evita|no modifiques|must not|don't use|avoid|without using/i
hasConstraintsRe ==
    Alt(<< Str(<< "n", "o", " ", "u", "s", "e", "s" >>),
          Str(<< "s", "i", "n", " ", "u", "s", "a", "r" >>),
          Str(<< "e", "v", "i", "t", "a" >>),
          Str(<< "n", "o", " ", "m", "o", "d", "i", "f", "i", "q", "u", "e", "s" >>),
          Str(<< "m", "u", "s", "t", " ", "n", "o", "t" >>),
          Str(<< "d", "o", "n", "'", "t", " ", "u", "s", "e" >>),
          Str(<< "a", "v", "o", "i", "d" >>),
          Str(<< "w", "i", "t", "h", "o", "u", "t", " ", "u", "s", "i", "n", "g" >>) >>)

hasConstraints(text) == Test(hasConstraintsRe, { "i" }, text)

\* /paso a paso|step by step|primero.*luego|first.*then/i
hasStepByStepRe ==
    Alt(<< Str(<< "p", "a", "s", "o", " ", "a", " ", "p", "a", "s", "o" >>),
          Str(<< "s", "t", "e", "p", " ", "b", "y", " ", "s", "t", "e", "p" >>),
          Cat(<< Str(<< "p", "r", "i", "m", "e", "r", "o" >>), Star(Dot), Str(<< "l", "u", "e", "g", "o" >>) >>),
          Cat(<< Str(<< "f", "i", "r", "s", "t" >>), Star(Dot), Str(<< "t", "h", "e", "n" >>) >>) >>)

hasStepByStep(text) == Test(hasStepByStepRe, { "i" }, text)

\* /formato:|devuelve.*json|en tabla|como lista|output as|return.*as|as a table|as a list|format:/i
hasOutputFormatRe ==
    Alt(<< Str(<< "f", "o", "r", "m", "a", "t", "o", ":" >>),
          Cat(<< Str(<< "d", "e", "v", "u", "e", "l", "v", "e" >>), Star(Dot), Str(<< "j", "s", "o", "n" >>) >>),
          Str(<< "e", "n", " ", "t", "a", "b", "l", "a" >>),
          Str(<< "c", "o", "m", "o", " ", "l", "i", "s", "t", "a" >>),
          Str(<< "o", "u", "t", "p", "u", "t", " ", "a", "s" >>),
          Cat(<< Str(<< "r", "e", "t", "u", "r", "n" >>), Star(Dot), Str(<< "a", "s" >>) >>),
          Str(<< "a", "s", " ", "a", " ", "t", "a", "b", "l", "e" >>),
          Str(<< "a", "s", " ", "a", " ", "l", "i", "s", "t" >>),
          Str(<< "f", "o", "r", "m", "a", "t", ":" >>) >>)

hasOutputFormat(text) == Test(hasOutputFormatRe, { "i" }, text)

\* /^no[,.]|no quise|en realidad|cambia|en vez de|actually|I meant|instead of|change.*to/i
isRefinementRe ==
    Alt(<< Cat(<< Bol, Str(<< "n", "o" >>), Set({ ",", "." }) >>),
          Str(<< "n", "o", " ", "q", "u", "i", "s", "e" >>),
          Str(<< "e", "n", " ", "r", "e", "a", "l", "i", "d", "a", "d" >>),
          Str(<< "c", "a", "m", "b", "i", "a" >>),
          Str(<< "e", "n", " ", "v", "e", "z", " ", "d", "e" >>),
          Str(<< "a", "c", "t", "u", "a", "l", "l", "y" >>),
          Str(<< "I", " ", "m", "e", "a", "n", "t" >>),
          Str(<< "i", "n", "s", "t", "e", "a", "d", " ", "o", "f" >>),
          Cat(<< Str(<< "c", "h", "a", "n", "g", "e" >>), Star(Dot), Str(<< "t", "o" >>) >>) >>)

isRefinement(text) == Test(isRefinementRe, { "i" }, text)

\* /también|y además|otra cosa|ahora|also|additionally|one more thing|now\s/i
isFollowUpRe ==
    Alt(<< Str(<< "t", "a", "m", "b", "i", eAcute, "n" >>),
          Str(<< "y", " ", "a", "d", "e", "m", aAcute, "s" >>),
          Str(<< "o", "t", "r", "a", " ", "c", "o", "s", "a" >>),
          Str(<< "a", "h", "o", "r", "a" >>),
          Str(<< "a", "l", "s", "o" >>),
          Str(<< "a", "d", "d", "i", "t", "i", "o", "n", "a", "l", "l", "y" >>),
          Str(<< "o", "n", "e", " ", "m", "o", "r", "e", " ", "t", "h", "i", "n", "g" >>),
          Cat(<< Str(<< "n", "o", "w" >>), Set(WhiteSpace) >>) >>)

isFollowUp(text) == Test(isFollowUpRe, { "i" }, text)

\* ------------------------------------------------------------------------
\* Arithmetic of the aggregators
\* ------------------------------------------------------------------------

\* Math.round(n / d) for n >= 0, d > 0: the nearest integer, a half rounds up.
\* A quotient that is a half-integer is a double, and any other quotient of
\* these sizes is further from a half-integer than the division's error.
MathRound(n, d) == (2 * n + d) \div (2 * d)

\* 2^n modulo d
RECURSIVE Pow2Mod(_, _)
Pow2Mod(n, d) == IF n = 0 THEN 1 % d ELSE (2 * Pow2Mod(n - 1, d)) % d

\* the least e >= 0 with 2^e * k >= d, for k > 0
RECURSIVE ShiftUp(_, _)
ShiftUp(k, d) == IF k >= d THEN 0 ELSE 1 + ShiftUp(2 * k, d)

\* the greatest j >= 0 with 2^j * d <= k, for k >= d
RECURSIVE ShiftDown(_, _)
ShiftDown(k, d) == IF k < 2 * d THEN 0 ELSE 1 + ShiftDown(k, 2 * d)

\* The error of the double k / d against the quotient, in units of 1/d of
\* the last place of its 53-bit significand M: with
\* k * 2^n = Q * d + rem, M is Q or Q + 1 (to nearest, a tie to even) and
\* the error is M * d - k * 2^n.
DivisionError(k, d, n) ==
    LET rem  == (k * Pow2Mod(n, d)) % d
        prev == (k * Pow2Mod(n - 1, d)) % d
        odd  == (2 * prev) \div d = 1
        up   == 2 * rem > d \/ (2 * rem = d /\ odd)
    IN  IF up THEN d - rem ELSE 0 - rem

\* Math.round((k / d) * c) in IEEE-754 double arithmetic, for integers
\* k >= 0, d > 0 and c in {10, 100}.  The division and the product round
\* once each.  Unless c * k / d is exactly m + 1/2 the errors are too small
\* to change the nearest integer.  At m + 1/2, a double, the product of the
\* rounded quotient by c is m + 1/2 + c * err / (d * 2^n), and it rounds to
\* the double below m + 1/2, hence to m, iff it is more than half a place
\* below: err < 0 and 2 * c * |err| > d * 2^(E + e), with 2^E the binade
\* of m + 1/2 and 2^-e that of k / d (a quarter of a place when m + 1/2
\* is the power of two 1/2).
MathRoundOfProduct(k, d, c) ==
    IF (2 * c * k) % (2 * d) # d THEN MathRound(c * k, d)
    ELSE LET m   == (c * k) \div d
             e   == IF k < d THEN ShiftUp(k, d) ELSE 0 - ShiftDown(k, d)
             E   == ShiftDown(2 * m + 1, 1) - 1
             err == DivisionError(k, d, 52 + e)
             lhs == (IF m = 0 THEN 4 ELSE 2) * c * (0 - err)
         IN  IF err < 0 /\ lhs > d * 2 ^ (E + e) THEN m ELSE m + 1

RECURSIVE Sum(_)
Sum(nums) ==
    IF nums = << >> THEN 0
    ELSE IF Len(nums) = 1 THEN nums[1]
    ELSE LET half == Len(nums) \div 2
         IN  Sum(SubSeq(nums, 1, half)) + Sum(SubSeq(nums, half + 1, Len(nums)))

\* Math.max(...nums) of a non-empty list
Max(nums) == CHOOSE m \in Range(nums) : \A n \in Range(nums) : n <= m

\* the lists joined, an entry of an earlier list left out of the later ones
RECURSIVE FlattenDistinct(_)
FlattenDistinct(lists) ==
    IF lists = << >> THEN << >>
    ELSE lists[1] \o SelectSeq(FlattenDistinct(Tail(lists)),
                               LAMBDA x : \A k \in DOMAIN lists[1] : lists[1][k] # x)

\* the first element of each non-empty list
FlattenFirsts(lists) ==
    LET firsts == SelectSeq(lists, LAMBDA l : l # << >>)
    IN  [ k \in DOMAIN firsts |-> firsts[k][1] ]

\* Array.prototype.flatMap / concat of a list of lists
RECURSIVE Flatten(_)
Flatten(lists) ==
    IF lists = << >> THEN << >>
    ELSE IF Len(lists) = 1 THEN lists[1]
    ELSE LET half == Len(lists) \div 2
         IN  Flatten(SubSeq(lists, 1, half)) \o Flatten(SubSeq(lists, half + 1, Len(lists)))

\* ------------------------------------------------------------------------
\* JavaScript values of a message
\*
\* content:  [kind |-> "string", text |-> t]      a string
\*           [kind |-> "array", blocks |-> bs]     a list of blocks
\*           [kind |-> "null"]                     null or a missing content
\*           [kind |-> "number"]                   any other non-array value
\* block:    [kind |-> "object", type |-> ty, text |-> v]
\*           [kind |-> "null"]                     a null entry
\*           [kind |-> "number"]                   a primitive entry
\* v:        [kind |-> "string", text |-> t] or [kind |-> "undefined"]
\*           or [kind |-> "number"]
\*
\* A call either returns or throws: [threw |-> FALSE, value |-> v] or
\* [threw |-> TRUE, value |-> "TypeError"].
\* ------------------------------------------------------------------------

Returned(v) == [threw |-> FALSE, value |-> v]
TypeError == [threw |-> TRUE, value |-> "TypeError"]

\* block.type === 'text' && typeof block.text === 'string'; reading a
\* property of null throws, of a primitive gives undefined
isTextBlock(block) ==
    block.kind = "object" /\ block.type = "text" /\ block.text.kind = "string"

extractText(content) ==
    IF content.kind = "string" THEN Returned(content.text)
    ELSE IF content.kind # "array" THEN TypeError
    ELSE IF \E k \in DOMAIN content.blocks : content.blocks[k].kind = "null" THEN TypeError
    ELSE LET kept == SelectSeq(content.blocks, isTextBlock)
         IN  Returned(join([ k \in DOMAIN kept |-> kept[k].text.text ], << NL >>))

\* getUserTexts without its last filter: blank turns are kept
getUserTextsKeepBlank(msgs) ==
    LET humans == SelectSeq(msgs, LAMBDA m : m.role = "human")
        texts  == [ k \in DOMAIN humans |-> extractText(humans[k].content) ]
    IN  IF \E k \in DOMAIN texts : texts[k].threw THEN TypeError
        ELSE Returned([ k \in DOMAIN texts |-> texts[k].value ])

\* getUserTexts without its first filter: assistant messages are kept
getUserTextsAnyRole(msgs) ==
    LET texts == [ k \in DOMAIN msgs |-> extractText(msgs[k].content) ]
    IN  IF \E k \in DOMAIN texts : texts[k].threw THEN TypeError
        ELSE Returned(SelectSeq([ k \in DOMAIN texts |-> texts[k].value ],
                                LAMBDA t : Len(trim(t)) > 0))

\* messages.filter(role === 'human').map(extractText).filter(trim().length > 0)
getUserTexts(msgs) ==
    LET humans == SelectSeq(msgs, LAMBDA m : m.role = "human")
        texts  == [ k \in DOMAIN humans |-> extractText(humans[k].content) ]
    IN  IF \E k \in DOMAIN texts : texts[k].threw THEN TypeError
        ELSE Returned(SelectSeq([ k \in DOMAIN texts |-> texts[k].value ],
                                LAMBDA t : Len(trim(t)) > 0))

\* ------------------------------------------------------------------------
\* prompt-analyzer: one session
\* ------------------------------------------------------------------------

ANALYSIS_VERSION == "1.0"

emptySessionData ==
    [ promptLengths |-> << >>, hasStructure |-> FALSE, hasCodeBlocks |-> FALSE,
      hasExamples |-> FALSE, hasFormatting |-> FALSE, hasFileRefs |-> FALSE,
      hasCodeRefs |-> FALSE, hasUrls |-> FALSE, hasRolePrompt |-> FALSE,
      hasConstraints |-> FALSE, hasStepByStep |-> FALSE, hasOutputFormat |-> FALSE,
      turnCount |-> 0, hasRefinement |-> FALSE, hasFollowUp |-> FALSE ]

\* the record of a session with turns
sessionData(userMessages) ==
    [ promptLengths   |-> [ n \in DOMAIN userMessages |-> Len(userMessages[n]) ],
      hasStructure    |-> \E n \in DOMAIN userMessages : hasStructure(userMessages[n]),
      hasCodeBlocks   |-> \E n \in DOMAIN userMessages : hasCodeBlocks(userMessages[n]),
      hasExamples     |-> \E n \in DOMAIN userMessages : hasExamples(userMessages[n]),
      hasFormatting   |-> \E n \in DOMAIN userMessages : hasFormatting(userMessages[n]),
      hasFileRefs     |-> \E n \in DOMAIN userMessages : hasFileReferences(userMessages[n]),
      hasCodeRefs     |-> \E n \in DOMAIN userMessages : hasCodeReferences(userMessages[n]),
      hasUrls         |-> \E n \in DOMAIN userMessages : hasUrls(userMessages[n]),
      hasRolePrompt   |-> \E n \in DOMAIN userMessages : hasRolePrompting(userMessages[n]),
      hasConstraints  |-> \E n \in DOMAIN userMessages : hasConstraints(userMessages[n]),
      hasStepByStep   |-> \E n \in DOMAIN userMessages : hasStepByStep(userMessages[n]),
      hasOutputFormat |-> \E n \in DOMAIN userMessages : hasOutputFormat(userMessages[n]),
      turnCount       |-> Len(userMessages),
      hasRefinement   |-> \E n \in DOMAIN userMessages : isRefinement(userMessages[n]),
      hasFollowUp     |-> \E n \in DOMAIN userMessages : isFollowUp(userMessages[n]) ]

promptsOf(got) ==
    IF got.threw THEN TypeError
    ELSE IF Len(got.value) = 0 THEN Returned(emptySessionData)
    ELSE Returned(sessionData(got.value))

analyzeSessionPrompts(msgs) == promptsOf(getUserTexts(msgs))

\* ------------------------------------------------------------------------
\* prompt-analyzer: aggregation
\*
\* avgTurnsBeforeResolution is kept in tenths.
\* ------------------------------------------------------------------------

\* pct scaled by 1000 in place of 100
pctPerMille(arr, hits) ==
    IF Len(arr) = 0 THEN 0 ELSE MathRound(1000 * Len(hits), Len(arr))

\* pct(arr, predicate), hits being arr.filter(predicate)
pct(arr, hits) ==
    IF Len(arr) = 0 THEN 0 ELSE MathRoundOfProduct(Len(hits), Len(arr), 100)

\* avg(nums), in tenths
avg(nums) ==
    IF Len(nums) = 0 THEN 0 ELSE MathRoundOfProduct(Sum(nums), Len(nums), 10)

isShort(l) == l < 100
isMedium(l) == l >= 100 /\ l < 500
isLong(l) == l >= 500 /\ l < 2000
isDetailed(l) == l >= 2000

providesContext(s) == s.hasFileRefs \/ s.hasCodeRefs \/ s.hasUrls

\* the empty result without its counter and version
emptyPromptingMetricsBare ==
    [ avgPromptLength |-> 0, maxPromptLength |-> 0,
      promptLengthDistribution |-> [ short |-> 0, medium |-> 0, long |-> 0, detailed |-> 0 ],
      structuredPromptRate |-> 0, usesCodeBlocks |-> FALSE, usesExamples |-> FALSE,
      usesFormatting |-> FALSE, contextProvisionRate |-> 0, referencesFiles |-> FALSE,
      referencesCode |-> FALSE, referencesUrls |-> FALSE, avgTurnsBeforeResolution |-> 0,
      refinementRate |-> 0, followUpRate |-> 0, usesRolePrompting |-> FALSE,
      usesConstraints |-> FALSE, usesStepByStep |-> FALSE, specifiesOutputFormat |-> FALSE ]

emptyPromptingMetrics ==
    [ avgPromptLength |-> 0, maxPromptLength |-> 0,
      promptLengthDistribution |-> [ short |-> 0, medium |-> 0, long |-> 0, detailed |-> 0 ],
      structuredPromptRate |-> 0, usesCodeBlocks |-> FALSE, usesExamples |-> FALSE,
      usesFormatting |-> FALSE, contextProvisionRate |-> 0, referencesFiles |-> FALSE,
      referencesCode |-> FALSE, referencesUrls |-> FALSE, avgTurnsBeforeResolution |-> 0,
      refinementRate |-> 0, followUpRate |-> 0, usesRolePrompting |-> FALSE,
      usesConstraints |-> FALSE, usesStepByStep |-> FALSE, specifiesOutputFormat |-> FALSE,
      totalPromptsAnalyzed |-> 0, analysisVersion |-> ANALYSIS_VERSION ]
\* a test that holds of every element, the empty list included
everySession(arr, flag) == \A k \in DOMAIN arr : arr[k][flag]

\* sessions.some(s => s.<flag>)
some(arr, flag) == \E k \in DOMAIN arr : arr[k][flag]


aggregatePromptingMetrics(sessions) ==
    LET allLengths == Flatten([ k \in DOMAIN sessions |-> sessions[k].promptLengths ])
        totalPrompts == Len(allLengths)
    IN  IF Len(sessions) = 0 THEN emptyPromptingMetrics
        ELSE IF totalPrompts = 0 THEN emptyPromptingMetrics
        ELSE
          [ avgPromptLength |-> MathRound(Sum(allLengths), totalPrompts),
            maxPromptLength |-> Max(allLengths),
            promptLengthDistribution |->
              [ short    |-> pct(allLengths, SelectSeq(allLengths, isShort)),
                medium   |-> pct(allLengths, SelectSeq(allLengths, isMedium)),
                long     |-> pct(allLengths, SelectSeq(allLengths, isLong)),
                detailed |-> pct(allLengths, SelectSeq(allLengths, isDetailed)) ],
            structuredPromptRate |-> pct(sessions, SelectSeq(sessions, LAMBDA s : s.hasStructure)),
            usesCodeBlocks |-> some(sessions, "hasCodeBlocks"),
            usesExamples |-> some(sessions, "hasExamples"),
            usesFormatting |-> some(sessions, "hasFormatting"),
            contextProvisionRate |-> pct(sessions, SelectSeq(sessions, providesContext)),
            referencesFiles |-> some(sessions, "hasFileRefs"),
            referencesCode |-> some(sessions, "hasCodeRefs"),
            referencesUrls |-> some(sessions, "hasUrls"),
            avgTurnsBeforeResolution |-> avg([ k \in DOMAIN sessions |-> sessions[k].turnCount ]),
            refinementRate |-> pct(sessions, SelectSeq(sessions, LAMBDA s : s.hasRefinement)),
            followUpRate |-> pct(sessions, SelectSeq(sessions, LAMBDA s : s.hasFollowUp)),
            usesRolePrompting |-> some(sessions, "hasRolePrompt"),
            usesConstraints |-> some(sessions, "hasConstraints"),
            usesStepByStep |-> some(sessions, "hasStepByStep"),
            specifiesOutputFormat |-> some(sessions, "hasOutputFormat"),
            totalPromptsAnalyzed |-> totalPrompts,
            analysisVersion |-> ANALYSIS_VERSION ]

\* ------------------------------------------------------------------------
\* workflow-analyzer: skills, references, actions, meta-instructions
\* ------------------------------------------------------------------------

\* The first match of re at or after position from: << start, end >>, the
\* end the one backtracking finds first; << >> when there is none.
RECURSIVE FirstMatch(_, _, _, _)
FirstMatch(re, flags, t, from) ==
    IF from > Len(t) + 1 THEN << >>
    ELSE LET ends == Ends(re, t, from, flags)
         IN  IF ends # << >> THEN << from, ends[1] >>
             ELSE FirstMatch(re, flags, t, from + 1)

\* String.prototype.matchAll / match with the g flag: the successive
\* matches, each search starting where the previous match ended
RECURSIVE MatchAll(_, _, _, _)
MatchAll(re, flags, t, from) ==
    LET m == FirstMatch(re, flags, t, from)
    IN  IF m = << >> THEN << >>
        ELSE << m >> \o MatchAll(re, flags, t, IF m[2] = m[1] THEN m[2] + 1 ELSE m[2])

\* /^\/([\w][\w:-]*(?:[-:][\w:-]+)+)(?![/\w])/gm
detectSkillsRe ==
    Cat(<< Bol, Str(<< "/" >>), Set(WordChars), Star(Set(WordChars \cup { ":", "-" })),
           Plus(Cat(<< Set({ "-", ":" }), Plus(Set(WordChars \cup { ":", "-" })) >>)),
           NotAhead(Set(WordChars \cup { "/" })) >>)

\* /^\/([\w][\w:-]*)(?![/\w])/gm: any name behind the slash
detectSkillsAnyNameRe ==
    Cat(<< Bol, Str(<< "/" >>), Set(WordChars), Star(Set(WordChars \cup { ":", "-" })),
           NotAhead(Set(WordChars \cup { "/" })) >>)

\* the first group of each match: the match without its leading slash
Group1(t, ms) == [ k \in DOMAIN ms |-> SubSeq(t, ms[k][1] + 1, ms[k][2] - 1) ]

detectSkillsAnyName(userMessage) ==
    Group1(userMessage, MatchAll(detectSkillsAnyNameRe, { "m" }, userMessage, 1))

detectSkills(userMessage) ==
    Group1(userMessage, MatchAll(detectSkillsRe, { "m" }, userMessage, 1))

\* /@[\w\/\\.-]+\.\w{1,5}\b/g
atRefRe ==
    Cat(<< Str(<< "@" >>), Plus(Set(WordChars \cup { "/", BackSlash, ".", "-" })),
           Str(<< "." >>), Rep(Set(WordChars), 1, 5), WordB >>)

\* (?:en|lee|mira|sigue|ver|read|see|follow|check)
explicitVerbRe ==
    Alt(<< Str(<< "e", "n" >>),
          Str(<< "l", "e", "e" >>),
          Str(<< "m", "i", "r", "a" >>),
          Str(<< "s", "i", "g", "u", "e" >>),
          Str(<< "v", "e", "r" >>),
          Str(<< "r", "e", "a", "d" >>),
          Str(<< "s", "e", "e" >>),
          Str(<< "f", "o", "l", "l", "o", "w" >>),
          Str(<< "c", "h", "e", "c", "k" >>) >>)

\* explicitPathRegex up to its group:
\* (?:en|lee|...)\s+(?:el\s+)?(?:archivo\s+)?[`"']?
explicitPrefixRe ==
    Cat(<< explicitVerbRe, Plus(Set(WhiteSpace)),
           Opt(Cat(<< Str(<< "e", "l" >>), Plus(Set(WhiteSpace)) >>)),
           Opt(Cat(<< Str(<< "a", "r", "c", "h", "i", "v", "o" >>), Plus(Set(WhiteSpace)) >>)),
           Opt(Set({ BackTick, DQuote, "'" })) >>)

\* the group of explicitPathRegex: ([\w\/\\.-]+\.\w{1,5})
explicitGroupRe ==
    Cat(<< Plus(Set(WordChars \cup { "/", BackSlash, ".", "-" })),
           Str(<< "." >>), Rep(Set(WordChars), 1, 5) >>)

\* The first match of prefix followed by group that starts at position i:
\* << group start, end >>, or << >>.
RECURSIVE GroupFrom(_, _, _, _, _)
GroupFrom(group, flags, t, starts, k) ==
    IF k > Len(starts) THEN << >>
    ELSE LET ends == Ends(group, t, starts[k], flags)
         IN  IF ends # << >> THEN << starts[k], ends[1] >>
             ELSE GroupFrom(group, flags, t, starts, k + 1)

RECURSIVE GroupMatches(_, _, _, _, _)
GroupMatches(prefix, group, flags, t, from) ==
    IF from > Len(t) + 1 THEN << >>
    ELSE LET g == GroupFrom(group, flags, t, Ends(prefix, t, from, flags), 1)
         IN  IF g = << >> THEN GroupMatches(prefix, group, flags, t, from + 1)
             ELSE << g >> \o GroupMatches(prefix, group, flags, t, g[2])

\* /plan\/|progreso\/|progress\/|PLAN\.md|step-\d+|README\.md/i
planFileRe ==
    Alt(<< Str(<< "p", "l", "a", "n", "/" >>),
          Str(<< "p", "r", "o", "g", "r", "e", "s", "o", "/" >>),
          Str(<< "p", "r", "o", "g", "r", "e", "s", "s", "/" >>),
          Str(<< "P", "L", "A", "N", ".", "m", "d" >>),
          Cat(<< Str(<< "s", "t", "e", "p", "-" >>), Plus(Set(Digits)) >>),
          Str(<< "R", "E", "A", "D", "M", "E", ".", "m", "d" >>) >>)

\* /\.env|config\.|tsconfig|package\.json|schema\.prisma/i
configFileRe ==
    Alt(<< Str(<< ".", "e", "n", "v" >>),
          Str(<< "c", "o", "n", "f", "i", "g", "." >>),
          Str(<< "t", "s", "c", "o", "n", "f", "i", "g" >>),
          Str(<< "p", "a", "c", "k", "a", "g", "e", ".", "j", "s", "o", "n" >>),
          Str(<< "s", "c", "h", "e", "m", "a", ".", "p", "r", "i", "s", "m", "a" >>) >>)

\* the matched substrings of t, ms their << start, end >> positions
Matched(t, ms) == [ k \in DOMAIN ms |-> SubSeq(t, ms[k][1], ms[k][2] - 1) ]

\* the record detectAtReferences builds from its two lists of matches
atReferenceData(atRefs, explicitPaths, allRefs) ==
    [ count |-> Len(allRefs),
      uniqueFiles |-> Uniq(allRefs),
      hasPlanFiles |-> \E k \in DOMAIN allRefs : Test(planFileRe, { "i" }, allRefs[k]),
      hasConfigFiles |-> \E k \in DOMAIN allRefs : Test(configFileRe, { "i" }, allRefs[k]),
      explicitPathsCount |-> Len(explicitPaths) ]

\* allRefs = [...new Set([...atRefs, ...explicitPaths])]
mergeRefs(atRefs, explicitPaths) ==
    atReferenceData(atRefs, explicitPaths, Uniq(atRefs \o explicitPaths))

detectAtReferences(userMessage) ==
    mergeRefs(Matched(userMessage, MatchAll(atRefRe, {}, userMessage, 1)),
              Matched(userMessage,
                      GroupMatches(explicitPrefixRe, explicitGroupRe, { "i" }, userMessage, 1)))

\* actionDetection.plan: /\/writing-plans|\/brainstorm|planifica|diseña|plan:|approach|design/i
planActionRe ==
    Alt(<< Str(<< "/", "w", "r", "i", "t", "i", "n", "g", "-", "p", "l", "a", "n", "s" >>),
          Str(<< "/", "b", "r", "a", "i", "n", "s", "t", "o", "r", "m" >>),
          Str(<< "p", "l", "a", "n", "i", "f", "i", "c", "a" >>),
          Str(<< "d", "i", "s", "e", nTilde, "a" >>),
          Str(<< "p", "l", "a", "n", ":" >>),
          Str(<< "a", "p", "p", "r", "o", "a", "c", "h" >>),
          Str(<< "d", "e", "s", "i", "g", "n" >>) >>)

\* actionDetection.implement: /\/executing|implementa|crea|añade|modifica|create|add|build|implement/i
implementActionRe ==
    Alt(<< Str(<< "/", "e", "x", "e", "c", "u", "t", "i", "n", "g" >>),
          Str(<< "i", "m", "p", "l", "e", "m", "e", "n", "t", "a" >>),
          Str(<< "c", "r", "e", "a" >>),
          Str(<< "a", nTilde, "a", "d", "e" >>),
          Str(<< "m", "o", "d", "i", "f", "i", "c", "a" >>),
          Str(<< "c", "r", "e", "a", "t", "e" >>),
          Str(<< "a", "d", "d" >>),
          Str(<< "b", "u", "i", "l", "d" >>),
          Str(<< "i", "m", "p", "l", "e", "m", "e", "n", "t" >>) >>)

\* actionDetection.verify: /\/verification|verifica|comprueba|test|check|asegúrate|make sure/i
verifyActionRe ==
    Alt(<< Str(<< "/", "v", "e", "r", "i", "f", "i", "c", "a", "t", "i", "o", "n" >>),
          Str(<< "v", "e", "r", "i", "f", "i", "c", "a" >>),
          Str(<< "c", "o", "m", "p", "r", "u", "e", "b", "a" >>),
          Str(<< "t", "e", "s", "t" >>),
          Str(<< "c", "h", "e", "c", "k" >>),
          Str(<< "a", "s", "e", "g", uAcute, "r", "a", "t", "e" >>),
          Str(<< "m", "a", "k", "e", " ", "s", "u", "r", "e" >>) >>)

\* actionDetection.review: /\/requesting-code-review|\/code-review|revisa|review|examina|examine/i
reviewActionRe ==
    Alt(<< Str(<< "/", "r", "e", "q", "u", "e", "s", "t", "i", "n", "g", "-", "c", "o", "d", "e", "-", "r", "e", "v", "i", "e", "w" >>),
          Str(<< "/", "c", "o", "d", "e", "-", "r", "e", "v", "i", "e", "w" >>),
          Str(<< "r", "e", "v", "i", "s", "a" >>),
          Str(<< "r", "e", "v", "i", "e", "w" >>),
          Str(<< "e", "x", "a", "m", "i", "n", "a" >>),
          Str(<< "e", "x", "a", "m", "i", "n", "e" >>) >>)

\* actionDetection.test: /\/test-driven|test|spec|vitest|jest|pytest/i
testActionRe ==
    Alt(<< Str(<< "/", "t", "e", "s", "t", "-", "d", "r", "i", "v", "e", "n" >>),
          Str(<< "t", "e", "s", "t" >>),
          Str(<< "s", "p", "e", "c" >>),
          Str(<< "v", "i", "t", "e", "s", "t" >>),
          Str(<< "j", "e", "s", "t" >>),
          Str(<< "p", "y", "t", "e", "s", "t" >>) >>)

\* actionDetection.debug: /\/systematic-debugging|debug|error|fix|bug|arregla|soluciona/i
debugActionRe ==
    Alt(<< Str(<< "/", "s", "y", "s", "t", "e", "m", "a", "t", "i", "c", "-", "d", "e", "b", "u", "g", "g", "i", "n", "g" >>),
          Str(<< "d", "e", "b", "u", "g" >>),
          Str(<< "e", "r", "r", "o", "r" >>),
          Str(<< "f", "i", "x" >>),
          Str(<< "b", "u", "g" >>),
          Str(<< "a", "r", "r", "e", "g", "l", "a" >>),
          Str(<< "s", "o", "l", "u", "c", "i", "o", "n", "a" >>) >>)

\* actionDetection.explore: /explica|cómo funciona|qué es|qué hace|explain|what is|how does|how to/i
exploreActionRe ==
    Alt(<< Str(<< "e", "x", "p", "l", "i", "c", "a" >>),
          Str(<< "c", oAcute, "m", "o", " ", "f", "u", "n", "c", "i", "o", "n", "a" >>),
          Str(<< "q", "u", eAcute, " ", "e", "s" >>),
          Str(<< "q", "u", eAcute, " ", "h", "a", "c", "e" >>),
          Str(<< "e", "x", "p", "l", "a", "i", "n" >>),
          Str(<< "w", "h", "a", "t", " ", "i", "s" >>),
          Str(<< "h", "o", "w", " ", "d", "o", "e", "s" >>),
          Str(<< "h", "o", "w", " ", "t", "o" >>) >>)

\* the entries of actionDetection, in insertion order
actionDetection ==
    << << "plan", planActionRe >>, << "implement", implementActionRe >>,
       << "verify", verifyActionRe >>, << "review", reviewActionRe >>,
       << "test", testActionRe >>, << "debug", debugActionRe >>,
       << "explore", exploreActionRe >> >>

detectActions(userMessage) ==
    LET hit == SelectSeq(actionDetection, LAMBDA e : Test(e[2], { "i" }, userMessage))
    IN  [ k \in DOMAIN hit |-> hit[k][1] ]

\* Array.prototype.includes
includes(list, x) == \E k \in DOMAIN list : list[k] = x

\* detectFlowPattern with the tdd-flow test ahead of the plan-and-verify test
\* the first rule asking for some of the four categories in place of all
detectFlowPatternSome(actions) ==
    IF \E a \in { "plan", "implement", "verify", "review" } : includes(actions, a)
    THEN "full-cycle"
    ELSE IF includes(actions, "explore") THEN "explore-only"
    ELSE "unknown"

detectFlowPatternTddFirst(actions) ==
    IF \A a \in {"plan", "implement", "verify", "review"} : includes(actions, a) THEN "full-cycle"
    ELSE IF \A a \in {"test", "implement", "verify"} : includes(actions, a) THEN "tdd-flow"
    ELSE IF \A a \in {"plan", "implement", "verify"} : includes(actions, a) THEN "plan-and-verify"
    ELSE IF \A a \in {"implement", "review"} : includes(actions, a) THEN "implement-and-review"
    ELSE IF includes(actions, "implement") THEN "implement-only"
    ELSE IF includes(actions, "explore") THEN "explore-only"
    ELSE "unknown"

detectFlowPattern(actions) ==
    LET unique == Uniq(actions)
    IN  IF \A a \in { "plan", "implement", "verify", "review" } : includes(unique, a)
        THEN "full-cycle"
        ELSE IF \A a \in { "plan", "implement", "verify" } : includes(unique, a)
        THEN "plan-and-verify"
        ELSE IF \A a \in { "test", "implement", "verify" } : includes(unique, a)
        THEN "tdd-flow"
        ELSE IF \A a \in { "implement", "review" } : includes(unique, a)
        THEN "implement-and-review"
        ELSE IF includes(unique, "implement") THEN "implement-only"
        ELSE IF includes(unique, "explore") THEN "explore-only"
        ELSE "unknown"

\* /primero.*(?:luego|después).*(?:finalmente|por último)|first.*then.*finally|paso 1.*paso 2|step 1.*step 2/is
definesProcessRe ==
    Alt(<< Cat(<< Str(<< "p", "r", "i", "m", "e", "r", "o" >>), Star(Dot),
                  Alt(<< Str(<< "l", "u", "e", "g", "o" >>),
                         Str(<< "d", "e", "s", "p", "u", eAcute, "s" >>) >>),
                  Star(Dot),
                  Alt(<< Str(<< "f", "i", "n", "a", "l", "m", "e", "n", "t", "e" >>),
                         Str(<< "p", "o", "r", " ", uAcute, "l", "t", "i", "m", "o" >>) >>) >>),
           Cat(<< Str(<< "f", "i", "r", "s", "t" >>), Star(Dot), Str(<< "t", "h", "e", "n" >>), Star(Dot),
                  Str(<< "f", "i", "n", "a", "l", "l", "y" >>) >>),
           Cat(<< Str(<< "p", "a", "s", "o", " ", "1" >>), Star(Dot), Str(<< "p", "a", "s", "o", " ", "2" >>) >>),
           Cat(<< Str(<< "s", "t", "e", "p", " ", "1" >>), Star(Dot), Str(<< "s", "t", "e", "p", " ", "2" >>) >>) >>)

\* /no hagas commit|no modifiques otros|solo lee|no pushes|don't commit|read only|just research|no toques/i
setsConstraintsRe ==
    Alt(<< Str(<< "n", "o", " ", "h", "a", "g", "a", "s", " ", "c", "o", "m", "m", "i", "t" >>),
          Str(<< "n", "o", " ", "m", "o", "d", "i", "f", "i", "q", "u", "e", "s", " ", "o", "t", "r", "o", "s" >>),
          Str(<< "s", "o", "l", "o", " ", "l", "e", "e" >>),
          Str(<< "n", "o", " ", "p", "u", "s", "h", "e", "s" >>),
          Str(<< "d", "o", "n", "'", "t", " ", "c", "o", "m", "m", "i", "t" >>),
          Str(<< "r", "e", "a", "d", " ", "o", "n", "l", "y" >>),
          Str(<< "j", "u", "s", "t", " ", "r", "e", "s", "e", "a", "r", "c", "h" >>),
          Str(<< "n", "o", " ", "t", "o", "q", "u", "e", "s" >>) >>)

\* /verifica (?:el|que|antes)|comprueba (?:el|que)|asegúrate de|confirm that|make sure|double.?check/i
requestsVerificationRe ==
    Alt(<< Cat(<< Str(<< "v", "e", "r", "i", "f", "i", "c", "a", " " >>), Alt(<< Str(<< "e", "l" >>), Str(<< "q", "u", "e" >>), Str(<< "a", "n", "t", "e", "s" >>) >>) >>),
          Cat(<< Str(<< "c", "o", "m", "p", "r", "u", "e", "b", "a", " " >>), Alt(<< Str(<< "e", "l" >>), Str(<< "q", "u", "e" >>) >>) >>),
          Str(<< "a", "s", "e", "g", uAcute, "r", "a", "t", "e", " ", "d", "e" >>),
          Str(<< "c", "o", "n", "f", "i", "r", "m", " ", "t", "h", "a", "t" >>),
          Str(<< "m", "a", "k", "e", " ", "s", "u", "r", "e" >>),
          Cat(<< Str(<< "d", "o", "u", "b", "l", "e" >>), Opt(Dot), Str(<< "c", "h", "e", "c", "k" >>) >>) >>)

\* /considéralo listo cuando|terminado cuando|done when|acceptance criteria|el checklist|cumple con/i
definesAcceptanceRe ==
    Alt(<< Str(<< "c", "o", "n", "s", "i", "d", eAcute, "r", "a", "l", "o", " ", "l", "i", "s", "t", "o", " ", "c", "u", "a", "n", "d", "o" >>),
          Str(<< "t", "e", "r", "m", "i", "n", "a", "d", "o", " ", "c", "u", "a", "n", "d", "o" >>),
          Str(<< "d", "o", "n", "e", " ", "w", "h", "e", "n" >>),
          Str(<< "a", "c", "c", "e", "p", "t", "a", "n", "c", "e", " ", "c", "r", "i", "t", "e", "r", "i", "a" >>),
          Str(<< "e", "l", " ", "c", "h", "e", "c", "k", "l", "i", "s", "t" >>),
          Str(<< "c", "u", "m", "p", "l", "e", " ", "c", "o", "n" >>) >>)

detectMetaInstructions(texts) ==
    LET allText == join(texts, << " " >>)
    IN  [ definesProcess |-> Test(definesProcessRe, { "i", "s" }, allText),
          setsConstraints |-> Test(setsConstraintsRe, { "i" }, allText),
          requestsVerification |-> Test(requestsVerificationRe, { "i" }, allText),
          definesAcceptance |-> Test(definesAcceptanceRe, { "i" }, allText) ]

MAX_SESSIONS_TO_ANALYZE == 50

noAtReferences ==
    [ count |-> 0, uniqueFiles |-> << >>, hasPlanFiles |-> FALSE,
      hasConfigFiles |-> FALSE, explicitPathsCount |-> 0 ]

\* a pass that counts the files of the union in place of adding the counts
mergeAtReferencesRecount(atRefsAgg, at) ==
    [ count |-> Len(Uniq(atRefsAgg.uniqueFiles \o at.uniqueFiles)),
      uniqueFiles |-> Uniq(atRefsAgg.uniqueFiles \o at.uniqueFiles),
      hasPlanFiles |-> atRefsAgg.hasPlanFiles \/ at.hasPlanFiles,
      hasConfigFiles |-> atRefsAgg.hasConfigFiles \/ at.hasConfigFiles,
      explicitPathsCount |-> atRefsAgg.explicitPathsCount + at.explicitPathsCount ]

\* one pass of the loop over the turns: atRefsAgg = { ... }
mergeAtReferences(atRefsAgg, at) ==
    [ count |-> atRefsAgg.count + at.count,
      uniqueFiles |-> Uniq(atRefsAgg.uniqueFiles \o at.uniqueFiles),
      hasPlanFiles |-> atRefsAgg.hasPlanFiles \/ at.hasPlanFiles,
      hasConfigFiles |-> atRefsAgg.hasConfigFiles \/ at.hasConfigFiles,
      explicitPathsCount |-> atRefsAgg.explicitPathsCount + at.explicitPathsCount ]

\* the loop of analyzeSessionWorkflow over the turns, from turn k on
RECURSIVE atRefsLoop(_, _, _)
atRefsLoop(userTexts, k, atRefsAgg) ==
    IF k > Len(userTexts) THEN atRefsAgg
    ELSE atRefsLoop(userTexts, k + 1,
                    mergeAtReferences(atRefsAgg, detectAtReferences(userTexts[k])))

\* the record of a session without turns
emptyWorkflowData(toolSkills) ==
    [ skills |-> toolSkills,
      atReferences |-> noAtReferences,
      actions |-> << >>,
      flowPattern |-> "unknown",
      metaCognition |-> [ definesProcess |-> FALSE, setsConstraints |-> FALSE,
                          requestsVerification |-> FALSE, definesAcceptance |-> FALSE ] ]

\* the record of a session with turns; allActions is kept with its repeats
\* for detectFlowPattern
sessionWorkflowData(userTexts, toolSkills, allActions) ==
    [ skills |-> Uniq(Flatten([ k \in DOMAIN userTexts |-> detectSkills(userTexts[k]) ])
                      \o toolSkills),
      atReferences |-> atRefsLoop(userTexts, 1, noAtReferences),
      actions |-> Uniq(allActions),
      flowPattern |-> detectFlowPattern(allActions),
      metaCognition |-> detectMetaInstructions(userTexts) ]

workflowOf(got, toolSkills) ==
    IF got.threw THEN TypeError
    ELSE IF Len(got.value) = 0 THEN Returned(emptyWorkflowData(toolSkills))
    ELSE Returned(sessionWorkflowData(got.value, toolSkills,
                    Flatten([ k \in DOMAIN got.value |-> detectActions(got.value[k]) ])))

analyzeSessionWorkflow(msgs, toolSkills) ==
    workflowOf(getUserTexts(msgs), toolSkills)

\* ------------------------------------------------------------------------
\* workflow-analyzer: aggregation
\*
\* skillsPerSession, atReferencesPerSession and avgActionsPerSession are
\* kept in tenths, directiveRate in hundredths.
\* ------------------------------------------------------------------------

\* sessions.slice(0, n): the first n in place of the last n
firstSlice(sessions, n) == SubSeq(sessions, 1, n)

\* sessions.slice(-n)
lastSlice(sessions, n) ==
    SubSeq(sessions, Len(sessions) - n + 1, Len(sessions))

isDirective(s) ==
    Len(s.skills) > 0 \/ s.metaCognition.definesProcess \/ s.metaCognition.setsConstraints

emptyWorkflowMetrics ==
    [ skillsUsed |-> << >>, skillUsageCount |-> 0, uniqueSkillsCount |-> 0,
      skillsPerSession |-> 0, atReferencesCount |-> 0, atReferencesPerSession |-> 0,
      uniqueFilesReferenced |-> 0, usesPlanFiles |-> FALSE, usesConfigFiles |-> FALSE,
      pathsInPrompts |-> 0, sessionsWithPlan |-> 0, sessionsWithVerification |-> 0,
      sessionsWithReview |-> 0, fullFlowSessions |-> 0, avgActionsPerSession |-> 0,
      definesProcess |-> FALSE, setsConstraints |-> FALSE, requestsVerification |-> FALSE,
      definesAcceptanceCriteria |-> FALSE, directiveRate |-> 0,
      totalSessionsAnalyzed |-> 0, analysisVersion |-> ANALYSIS_VERSION ]

aggregateWorkflowMetrics(sessions) ==
    LET limited == IF Len(sessions) > MAX_SESSIONS_TO_ANALYZE
                   THEN lastSlice(sessions, MAX_SESSIONS_TO_ANALYZE)
                   ELSE sessions
        total == Len(limited)
        allSkills == Flatten([ k \in DOMAIN limited |-> limited[k].skills ])
        atRefsTotal == Sum([ k \in DOMAIN limited |-> limited[k].atReferences.count ])
        uniqueFilesSet ==
            Uniq(Flatten([ k \in DOMAIN limited |-> limited[k].atReferences.uniqueFiles ]))
        pathsInPromptsTotal ==
            Sum([ k \in DOMAIN limited |-> limited[k].atReferences.explicitPathsCount ])
        actionsTotal == Sum([ k \in DOMAIN limited |-> Len(limited[k].actions) ])
        directiveSessions == Len(SelectSeq(limited, isDirective))
        uniqueSkills == Uniq(allSkills)
        skillUsageCount == Len(allSkills)
        count(a) == Len(SelectSeq(limited, LAMBDA s : includes(s.actions, a)))
    IN  IF total = 0 THEN emptyWorkflowMetrics
        ELSE
          [ skillsUsed |-> uniqueSkills,
            skillUsageCount |-> skillUsageCount,
            uniqueSkillsCount |-> Len(uniqueSkills),
            skillsPerSession |-> MathRoundOfProduct(skillUsageCount, total, 10),
            atReferencesCount |-> atRefsTotal,
            atReferencesPerSession |-> MathRoundOfProduct(atRefsTotal, total, 10),
            uniqueFilesReferenced |-> Len(uniqueFilesSet),
            usesPlanFiles |-> \E k \in DOMAIN limited : limited[k].atReferences.hasPlanFiles,
            usesConfigFiles |-> \E k \in DOMAIN limited : limited[k].atReferences.hasConfigFiles,
            pathsInPrompts |-> pathsInPromptsTotal,
            sessionsWithPlan |-> count("plan"),
            sessionsWithVerification |-> count("verify"),
            sessionsWithReview |-> count("review"),
            fullFlowSessions |-> Len(SelectSeq(limited, LAMBDA s : s.flowPattern = "full-cycle")),
            avgActionsPerSession |-> MathRoundOfProduct(actionsTotal, total, 10),
            definesProcess |-> \E k \in DOMAIN limited : limited[k].metaCognition.definesProcess,
            setsConstraints |-> \E k \in DOMAIN limited : limited[k].metaCognition.setsConstraints,
            requestsVerification |->
                \E k \in DOMAIN limited : limited[k].metaCognition.requestsVerification,
            definesAcceptanceCriteria |->
                \E k \in DOMAIN limited : limited[k].metaCognition.definesAcceptance,
            directiveRate |-> IF total > 0 THEN MathRoundOfProduct(directiveSessions, total, 100) ELSE 0,
            totalSessionsAnalyzed |-> total,
            analysisVersion |-> ANALYSIS_VERSION ]

\* ------------------------------------------------------------------------
\* task-inference
\* ------------------------------------------------------------------------

\* /\b(plan|architect|design|structure|scaffold|outline|strategy)\b/
planningRe ==
    Cat(<< WordB,
           Alt(<< Str(<< "p", "l", "a", "n" >>),
                 Str(<< "a", "r", "c", "h", "i", "t", "e", "c", "t" >>),
                 Str(<< "d", "e", "s", "i", "g", "n" >>),
                 Str(<< "s", "t", "r", "u", "c", "t", "u", "r", "e" >>),
                 Str(<< "s", "c", "a", "f", "f", "o", "l", "d" >>),
                 Str(<< "o", "u", "t", "l", "i", "n", "e" >>),
                 Str(<< "s", "t", "r", "a", "t", "e", "g", "y" >>) >>),
           WordB >>)

\* /\b(fix|bug|error|debug|issue|crash|broken|fail|exception)\b/
debuggingRe ==
    Cat(<< WordB,
           Alt(<< Str(<< "f", "i", "x" >>),
                 Str(<< "b", "u", "g" >>),
                 Str(<< "e", "r", "r", "o", "r" >>),
                 Str(<< "d", "e", "b", "u", "g" >>),
                 Str(<< "i", "s", "s", "u", "e" >>),
                 Str(<< "c", "r", "a", "s", "h" >>),
                 Str(<< "b", "r", "o", "k", "e", "n" >>),
                 Str(<< "f", "a", "i", "l" >>),
                 Str(<< "e", "x", "c", "e", "p", "t", "i", "o", "n" >>) >>),
           WordB >>)

\* /\b(refactor|clean|improve|simplify|optimize|reorganize|restructure)\b/
refactoringRe ==
    Cat(<< WordB,
           Alt(<< Str(<< "r", "e", "f", "a", "c", "t", "o", "r" >>),
                 Str(<< "c", "l", "e", "a", "n" >>),
                 Str(<< "i", "m", "p", "r", "o", "v", "e" >>),
                 Str(<< "s", "i", "m", "p", "l", "i", "f", "y" >>),
                 Str(<< "o", "p", "t", "i", "m", "i", "z", "e" >>),
                 Str(<< "r", "e", "o", "r", "g", "a", "n", "i", "z", "e" >>),
                 Str(<< "r", "e", "s", "t", "r", "u", "c", "t", "u", "r", "e" >>) >>),
           WordB >>)

\* /\b(test|spec|coverage|jest|vitest|mocha|pytest|unittest|e2e|integration)\b/
testingRe ==
    Cat(<< WordB,
           Alt(<< Str(<< "t", "e", "s", "t" >>),
                 Str(<< "s", "p", "e", "c" >>),
                 Str(<< "c", "o", "v", "e", "r", "a", "g", "e" >>),
                 Str(<< "j", "e", "s", "t" >>),
                 Str(<< "v", "i", "t", "e", "s", "t" >>),
                 Str(<< "m", "o", "c", "h", "a" >>),
                 Str(<< "p", "y", "t", "e", "s", "t" >>),
                 Str(<< "u", "n", "i", "t", "t", "e", "s", "t" >>),
                 Str(<< "e", "2", "e" >>),
                 Str(<< "i", "n", "t", "e", "g", "r", "a", "t", "i", "o", "n" >>) >>),
           WordB >>)

\* /\b(review|check|verify|audit|examine|inspect|analyze)\b/
reviewRe ==
    Cat(<< WordB,
           Alt(<< Str(<< "r", "e", "v", "i", "e", "w" >>),
                 Str(<< "c", "h", "e", "c", "k" >>),
                 Str(<< "v", "e", "r", "i", "f", "y" >>),
                 Str(<< "a", "u", "d", "i", "t" >>),
                 Str(<< "e", "x", "a", "m", "i", "n", "e" >>),
                 Str(<< "i", "n", "s", "p", "e", "c", "t" >>),
                 Str(<< "a", "n", "a", "l", "y", "z", "e" >>) >>),
           WordB >>)

\* /\b(doc|readme|comment|explain|document|jsdoc|tsdoc|api doc)\b/
documentationRe ==
    Cat(<< WordB,
           Alt(<< Str(<< "d", "o", "c" >>),
                 Str(<< "r", "e", "a", "d", "m", "e" >>),
                 Str(<< "c", "o", "m", "m", "e", "n", "t" >>),
                 Str(<< "e", "x", "p", "l", "a", "i", "n" >>),
                 Str(<< "d", "o", "c", "u", "m", "e", "n", "t" >>),
                 Str(<< "j", "s", "d", "o", "c" >>),
                 Str(<< "t", "s", "d", "o", "c" >>),
                 Str(<< "a", "p", "i", " ", "d", "o", "c" >>) >>),
           WordB >>)

\* /\b(implement|create|build|add|feature|develop|write|make|new)\b/
implementationRe ==
    Cat(<< WordB,
           Alt(<< Str(<< "i", "m", "p", "l", "e", "m", "e", "n", "t" >>),
                 Str(<< "c", "r", "e", "a", "t", "e" >>),
                 Str(<< "b", "u", "i", "l", "d" >>),
                 Str(<< "a", "d", "d" >>),
                 Str(<< "f", "e", "a", "t", "u", "r", "e" >>),
                 Str(<< "d", "e", "v", "e", "l", "o", "p" >>),
                 Str(<< "w", "r", "i", "t", "e" >>),
                 Str(<< "m", "a", "k", "e" >>),
                 Str(<< "n", "e", "w" >>) >>),
           WordB >>)

\* inferTaskType with the testing test ahead of the debugging test
inferTaskTypeTestingFirst(summary, firstPrompt) ==
    LET text == toLowerCase(summary \o << " " >> \o firstPrompt)
    IN  IF Test(planningRe, {}, text) THEN "planning"
        ELSE IF Test(testingRe, {}, text) THEN "testing"
        ELSE IF Test(debuggingRe, {}, text) THEN "debugging"
        ELSE IF Test(refactoringRe, {}, text) THEN "refactoring"
        ELSE IF Test(reviewRe, {}, text) THEN "review"
        ELSE IF Test(documentationRe, {}, text) THEN "documentation"
        ELSE IF Test(implementationRe, {}, text) THEN "implementation"
        ELSE "other"

\* `${summary || ''} ${firstPrompt || ''}`.toLowerCase()
inferTaskType(summary, firstPrompt) ==
    LET text == toLowerCase(summary \o << " " >> \o firstPrompt)
    IN  IF Test(planningRe, {}, text) THEN "planning"
        ELSE IF Test(debuggingRe, {}, text) THEN "debugging"
        ELSE IF Test(refactoringRe, {}, text) THEN "refactoring"
        ELSE IF Test(testingRe, {}, text) THEN "testing"
        ELSE IF Test(reviewRe, {}, text) THEN "review"
        ELSE IF Test(documentationRe, {}, text) THEN "documentation"
        ELSE IF Test(implementationRe, {}, text) THEN "implementation"
        ELSE "other"

\* /\b(plan|planning|architecture|design|strategy|outline)\b/
planModeRe ==
    Cat(<< WordB,
           Alt(<< Str(<< "p", "l", "a", "n" >>),
                 Str(<< "p", "l", "a", "n", "n", "i", "n", "g" >>),
                 Str(<< "a", "r", "c", "h", "i", "t", "e", "c", "t", "u", "r", "e" >>),
                 Str(<< "d", "e", "s", "i", "g", "n" >>),
                 Str(<< "s", "t", "r", "a", "t", "e", "g", "y" >>),
                 Str(<< "o", "u", "t", "l", "i", "n", "e" >>) >>),
           WordB >>)

detectsPlanMode(summary) ==
    IF summary = << >> THEN FALSE
    ELSE Test(planModeRe, {}, toLowerCase(summary))

\* ------------------------------------------------------------------------
\* State
\* ------------------------------------------------------------------------

VARIABLES
    messages,             \* the transcript handed to the two session analyzers
    skillsFromToolCalls,  \* the second argument of analyzeSessionWorkflow
    promptData,           \* what analyzeSessionPrompts(messages) did
    workflowData,         \* what analyzeSessionWorkflow(messages, ...) did
    promptSessions,       \* the list handed to aggregatePromptingMetrics
    promptingMetrics,     \* its result
    workflowSessions,     \* the list handed to aggregateWorkflowMetrics
    workflowMetrics,      \* its result
    actions,              \* the list handed to detectFlowPattern
    flowPattern,          \* its result
    summary,              \* the arguments of inferTaskType
    firstPrompt,
    taskType,             \* its result
    userMessage,          \* the text handed to detectSkills
    detectedSkills,       \* its result
    summaries,            \* the summaries of the sessions collectClaudeCode analyzed
    usesPlanMode,         \* its local of that name
    platform,             \* os.platform()
    scriptExists,         \* whether dist/index.js is on disk
    plistExists,          \* whether the launchd plist is on disk
    commands,             \* the command lines handed to execSync, oldest first
    crontab,              \* the user's crontab, as crontab -l prints it
    attempt,              \* the loop variable of sendMetrics
    sendPc,               \* where sendMetrics stands
    posts,                \* what each POST of the call met, oldest first
    waits,                \* the delays of its timers, in milliseconds
    sendReturned,         \* its result, once it has returned: << true >> or << false >>
    clock,                \* Date.now(), in hours
    configFile,           \* ~/.monitor-ia/config.json, if it is there
    invocations,          \* the run-once processes
    sends,                \* the calls of sendMetrics they made, oldest first
    enabled,              \* the argument of runCollectors
    cursor,               \* how many of its names the loop has taken
    results,              \* its local of that name
    called,               \* the values it called as collectors, with what they did
    setupPc,              \* where setup stands
    reconfigureAnswer,    \* the answers typed to its two questions
    consentAnswer

vars == << messages, skillsFromToolCalls, promptData, workflowData, promptSessions,
           promptingMetrics, workflowSessions, workflowMetrics, actions, flowPattern,
           summary, firstPrompt, taskType, userMessage, detectedSkills, summaries,
           usesPlanMode, platform, scriptExists, plistExists, commands, crontab,
           attempt, sendPc, posts, waits, sendReturned, clock, configFile, invocations,
           sends, enabled, cursor, results, called, setupPc, reconfigureAnswer,
           consentAnswer >>

\* a call not made yet, and a call that ended
NotRun == [ done |-> FALSE, threw |-> FALSE, value |-> "none" ]
Ended(r) == [ done |-> TRUE, threw |-> r.threw, value |-> r.value ]

\* no crontab for the user: crontab -l fails
NoCrontab == [ exists |-> FALSE, text |-> << >> ]

\* the parts of the state a specification does not use
AnalyzeIdle ==
    /\ messages = << >>
    /\ skillsFromToolCalls = << >>
    /\ promptData = NotRun
    /\ workflowData = NotRun
PromptingIdle == promptSessions = << >> /\ promptingMetrics = NotRun
WorkflowIdle == workflowSessions = << >> /\ workflowMetrics = NotRun
FlowIdle == actions = << >> /\ flowPattern = NotRun
TaskIdle == summary = << >> /\ firstPrompt = << >> /\ taskType = NotRun
SkillsIdle == userMessage = << >> /\ detectedSkills = NotRun
CollectIdle == summaries = << >> /\ usesPlanMode = FALSE
ServiceIdle ==
    /\ platform = "linux"
    /\ scriptExists = FALSE
    /\ plistExists = FALSE
    /\ commands = << >>
    /\ crontab = NoCrontab
SendIdle ==
    /\ attempt = 0
    /\ sendPc = "idle"
    /\ posts = << >>
    /\ waits = << >>
    /\ sendReturned = << >>
AgentIdle == clock = 0 /\ configFile = << >>
RunIdle == invocations = << >> /\ sends = << >>
CollectorsIdle == enabled = << >> /\ cursor = 0 /\ results = << >> /\ called = << >>
SetupIdle == setupPc = "idle" /\ reconfigureAnswer = << >> /\ consentAnswer = << >>

analyzeVars == << messages, skillsFromToolCalls, promptData, workflowData >>
promptingVars == << promptSessions, promptingMetrics >>
workflowVars == << workflowSessions, workflowMetrics >>
flowVars == << actions, flowPattern >>
taskVars == << summary, firstPrompt, taskType >>
skillsVars == << userMessage, detectedSkills >>
collectVars == << summaries, usesPlanMode >>
serviceVars == << platform, scriptExists, plistExists, commands, crontab >>
sendVars == << attempt, sendPc, posts, waits, sendReturned >>
agentVars == << clock, configFile >>
runVars == << invocations, sends >>
collectorsVars == << enabled, cursor, results, called >>
setupVars == << setupPc, reconfigureAnswer, consentAnswer >>

\* every list over S of length at most n
SeqsUpTo(S, n) == UNION { [ 1..k -> S ] : k \in 0..n }

\* n copies of x
Repeat(x, n) == [ k \in 1..n |-> x ]

\* ------------------------------------------------------------------------
\* The session analyzers on one transcript
\* ------------------------------------------------------------------------

MaxMessages == 2

TextList == << "1", ".", " ", "a" >>
TextBlank == << " ", NL >>
TextAlso == << "a", "l", "s", "o", " ", BackTick, "x", BackTick >>
TextRefine == << "n", "o", ",", " ", "/", "a", ".", "t", "s" >>
TextHeading == << "#", " ", "h" >>
TextPlain == << "x" >>
TextExample == << "e", ".", "g", ".", " ", "b" >>
SkillName == << "a", "-", "b" >>

StringContent(t) == [ kind |-> "string", text |-> t ]
ArrayContent(bs) == [ kind |-> "array", blocks |-> bs ]
TextBlock(t) == [ kind |-> "object", type |-> "text", text |-> [ kind |-> "string", text |-> t ] ]
OtherBlock(ty) == [ kind |-> "object", type |-> ty, text |-> [ kind |-> "undefined" ] ]

\* contents of the typed shapes: a string or a list of blocks
TypedContents ==
    { StringContent(TextList), StringContent(TextBlank), StringContent(TextAlso),
      ArrayContent(<< TextBlock(TextRefine), OtherBlock("image") >>),
      ArrayContent(<< OtherBlock("image"), OtherBlock("tool_use") >>),
      ArrayContent(<< TextBlock(TextHeading), TextBlock(TextPlain) >>) }

\* contents a parsed transcript line can hold beyond the declared type
MalformedContents ==
    { [ kind |-> "null" ],
      ArrayContent(<< [ kind |-> "null" ], TextBlock(TextPlain) >>),
      ArrayContent(<< [ kind |-> "number" ], OtherBlock("text"),
                      [ kind |-> "object", type |-> "text", text |-> [ kind |-> "number" ] ],
                      TextBlock(TextExample) >>) }

Contents == TypedContents \cup MalformedContents

Messages == [ role : { "human", "assistant" }, content : Contents ]

SkillLists == { << >>, << SkillName >> }

InitAnalyze ==
    /\ messages \in SeqsUpTo(Messages, MaxMessages)
    /\ skillsFromToolCalls = << >>
    /\ promptData = NotRun
    /\ workflowData = NotRun
    /\ PromptingIdle /\ WorkflowIdle /\ FlowIdle /\ TaskIdle
    /\ SkillsIdle /\ CollectIdle /\ ServiceIdle
    /\ SendIdle /\ AgentIdle /\ RunIdle /\ CollectorsIdle /\ SetupIdle

AnalyzePrompts ==
    /\ promptData' = Ended(analyzeSessionPrompts(messages))
    /\ UNCHANGED << messages, skillsFromToolCalls, workflowData >>
    /\ UNCHANGED << promptingVars, workflowVars, flowVars, taskVars >>
    /\ UNCHANGED << skillsVars, collectVars, serviceVars >>
    /\ UNCHANGED << sendVars, agentVars, runVars, collectorsVars, setupVars >>

AnalyzeWorkflow ==
    \E skills \in SkillLists :
        /\ skillsFromToolCalls' = skills
        /\ workflowData' = Ended(analyzeSessionWorkflow(messages, skills))
        /\ UNCHANGED << messages, promptData >>
        /\ UNCHANGED << promptingVars, workflowVars, flowVars, taskVars >>
        /\ UNCHANGED << skillsVars, collectVars, serviceVars >>
        /\ UNCHANGED << sendVars, agentVars, runVars, collectorsVars, setupVars >>

NextAnalyze == AnalyzePrompts \/ AnalyzeWorkflow

SpecAnalyze == InitAnalyze /\ [][NextAnalyze]_vars

\* ------------------------------------------------------------------------
\* Reference normalization, written from the contract of the normalizer:
\* the turns of a transcript are its human messages whose text is not
\* blank, the text of a block list being the texts of its well-formed text
\* blocks, one per line.
\* ------------------------------------------------------------------------

IsBlank(t) == \A k \in DOMAIN t : t[k] \in WhiteSpace

RECURSIVE RefLines(_)
RefLines(blocks) ==
    IF blocks = << >> THEN << >>
    ELSE LET b == blocks[1]
             rest == RefLines(Tail(blocks))
         IN  IF b.kind = "object" /\ b.type = "text" /\ b.text.kind = "string"
             THEN IF rest = << >> /\ ~ \E k \in 2..Len(blocks) :
                                        /\ blocks[k].kind = "object"
                                        /\ blocks[k].type = "text"
                                        /\ blocks[k].text.kind = "string"
                  THEN << b.text.text >>
                  ELSE << b.text.text >> \o rest
             ELSE rest

RECURSIVE RefLinesText(_)
RefLinesText(lines) ==
    IF lines = << >> THEN << >>
    ELSE IF Len(lines) = 1 THEN lines[1]
    ELSE lines[1] \o << NL >> \o RefLinesText(Tail(lines))

RefText(content) ==
    IF content.kind = "string" THEN content.text
    ELSE IF content.kind = "array" THEN RefLinesText(RefLines(content.blocks))
    ELSE << >>

RECURSIVE RefTurns(_)
RefTurns(msgs) ==
    IF msgs = << >> THEN << >>
    ELSE LET t == RefText(msgs[1].content)
         IN  IF msgs[1].role = "human" /\ ~ IsBlank(t)
             THEN << t >> \o RefTurns(Tail(msgs))
             ELSE RefTurns(Tail(msgs))

PromptsReturned == promptData.done /\ ~ promptData.threw
WorkflowReturned == workflowData.done /\ ~ workflowData.threw

\* ------------------------------------------------------------------------
\* Claims about the session analyzers (SpecAnalyze)
\* ------------------------------------------------------------------------

\* C5: each boolean flag of the record analyzeSessionPrompts returns is true
\* iff its detector matches at least one non-blank human turn of the
\* transcript; without such a turn every flag is false, promptLengths is
\* empty and turnCount is 0.
C5_FlagsAreOrOverHumanTurns ==
    PromptsReturned =>
        LET turns == RefTurns(messages)
            r == promptData.value
        IN  /\ r.hasStructure    <=> \E k \in DOMAIN turns : hasStructure(turns[k])
            /\ r.hasCodeBlocks   <=> \E k \in DOMAIN turns : hasCodeBlocks(turns[k])
            /\ r.hasExamples     <=> \E k \in DOMAIN turns : hasExamples(turns[k])
            /\ r.hasFormatting   <=> \E k \in DOMAIN turns : hasFormatting(turns[k])
            /\ r.hasFileRefs     <=> \E k \in DOMAIN turns : hasFileReferences(turns[k])
            /\ r.hasCodeRefs     <=> \E k \in DOMAIN turns : hasCodeReferences(turns[k])
            /\ r.hasUrls         <=> \E k \in DOMAIN turns : hasUrls(turns[k])
            /\ r.hasRolePrompt   <=> \E k \in DOMAIN turns : hasRolePrompting(turns[k])
            /\ r.hasConstraints  <=> \E k \in DOMAIN turns : hasConstraints(turns[k])
            /\ r.hasStepByStep   <=> \E k \in DOMAIN turns : hasStepByStep(turns[k])
            /\ r.hasOutputFormat <=> \E k \in DOMAIN turns : hasOutputFormat(turns[k])
            /\ r.hasRefinement   <=> \E k \in DOMAIN turns : isRefinement(turns[k])
            /\ r.hasFollowUp     <=> \E k \in DOMAIN turns : isFollowUp(turns[k])
            /\ turns = << >> => r.promptLengths = << >> /\ r.turnCount = 0

\* a flag set by one of two human turns only, and a transcript whose only
\* structured text is an assistant's
C5_Witness ==
    /\ PromptsReturned
    /\ \/ /\ Len(RefTurns(messages)) = 2
          /\ promptData.value.hasStructure
          /\ ~ hasStructure(RefTurns(messages)[2])
       \/ /\ \E k \in DOMAIN messages :
                 /\ messages[k].role = "assistant"
                 /\ messages[k].content = StringContent(TextList)
          /\ Len(RefTurns(messages)) = 1
          /\ ~ promptData.value.hasStructure

\* C6: the turns analysed are the human messages whose extracted text is
\* not blank, in their order: turnCount is their number and promptLengths[i]
\* the length of the i-th one's text.
C6_TurnsAreNonBlankHumanTexts ==
    PromptsReturned =>
        LET turns == RefTurns(messages)
            r == promptData.value
        IN  /\ r.turnCount = Len(turns)
            /\ r.promptLengths = [ k \in DOMAIN turns |-> Len(turns[k]) ]

\* a human message made of non-text blocks only is dropped, beside a kept
\* turn whose text is two text blocks joined by a line break
C6_Witness ==
    /\ PromptsReturned
    /\ Len(messages) = 2
    /\ messages[1].role = "human"
    /\ messages[1].content = ArrayContent(<< OtherBlock("image"), OtherBlock("tool_use") >>)
    /\ messages[2].role = "human"
    /\ messages[2].content = ArrayContent(<< TextBlock(TextHeading), TextBlock(TextPlain) >>)
    /\ promptData.value.turnCount = 1
    /\ promptData.value.promptLengths = << 5 >>

\* C7: whatever the shape of a message's content, analyzeSessionPrompts and
\* analyzeSessionWorkflow return a record: neither call raises.
C7_AnalyzersNeverRaise ==
    /\ promptData.done => ~ promptData.threw
    /\ workflowData.done => ~ workflowData.threw

\* ------------------------------------------------------------------------
\* detectFlowPattern on a list of action categories
\* ------------------------------------------------------------------------

\* how many entries a list holds beyond its distinct categories
MaxExtraActions == 1

Categories == << "plan", "implement", "verify", "review", "test", "debug", "explore" >>

\* the categories of C in the order detectActions pushes them
ListOf(C) == SelectSeq(Categories, LAMBDA a : a \in C)

InitFlow ==
    /\ actions \in { ListOf(C) : C \in SUBSET Range(Categories) }
    /\ flowPattern = NotRun
    /\ AnalyzeIdle /\ PromptingIdle /\ WorkflowIdle /\ TaskIdle
    /\ SkillsIdle /\ CollectIdle /\ ServiceIdle
    /\ SendIdle /\ AgentIdle /\ RunIdle /\ CollectorsIdle /\ SetupIdle

\* the caller concatenates the categories of one more message
PushAction ==
    /\ \E a \in Range(Categories) :
          /\ Len(actions) < Cardinality(Range(actions)) + MaxExtraActions
          /\ actions' = << a >> \o actions
    /\ flowPattern' = NotRun
    /\ UNCHANGED << analyzeVars, promptingVars, workflowVars, taskVars >>
    /\ UNCHANGED << skillsVars, collectVars, serviceVars >>
    /\ UNCHANGED << sendVars, agentVars, runVars, collectorsVars, setupVars >>

DetectFlow ==
    /\ ~ flowPattern.done
    /\ flowPattern' = Ended(Returned(detectFlowPattern(actions)))
    /\ UNCHANGED actions
    /\ UNCHANGED << analyzeVars, promptingVars, workflowVars, taskVars >>
    /\ UNCHANGED << skillsVars, collectVars, serviceVars >>
    /\ UNCHANGED << sendVars, agentVars, runVars, collectorsVars, setupVars >>

NextFlow == PushAction \/ DetectFlow

SpecFlow == InitFlow /\ [][NextFlow]_vars

\* the decision list over the set of categories present
FlowOfSet(C) ==
    CASE {"plan", "implement", "verify", "review"} \subseteq C -> "full-cycle"
      [] {"plan", "implement", "verify"} \subseteq C /\ "review" \notin C -> "plan-and-verify"
      [] {"test", "implement", "verify"} \subseteq C /\ "plan" \notin C -> "tdd-flow"
      [] {"implement", "review"} \subseteq C
           /\ ~ ({"plan", "verify"} \subseteq C) /\ ~ ({"test", "verify"} \subseteq C)
           -> "implement-and-review"
      [] "implement" \in C /\ "review" \notin C
           /\ ~ ({"plan", "verify"} \subseteq C) /\ ~ ({"test", "verify"} \subseteq C)
           -> "implement-only"
      [] "implement" \notin C /\ "explore" \in C -> "explore-only"
      [] "implement" \notin C /\ "explore" \notin C -> "unknown"

\* C2: detectFlowPattern depends only on the set of categories in its
\* argument and equals the first-match decision list full-cycle,
\* plan-and-verify, tdd-flow, implement-and-review, implement-only,
\* explore-only, unknown over that set.
C2_FlowPatternIsDecisionList ==
    flowPattern.done =>
        /\ ~ flowPattern.threw
        /\ flowPattern.value = FlowOfSet(Range(actions))

\* plan, implement, verify and test present, out of order and with a
\* duplicate: the earlier rule, plan-and-verify, wins over tdd-flow
C2_Witness ==
    /\ flowPattern.done
    /\ Range(actions) = {"plan", "implement", "verify", "test"}
    /\ Len(actions) > 4
    /\ actions[1] = "test"
    /\ flowPattern.value = "plan-and-verify"

\* ------------------------------------------------------------------------
\* inferTaskType on a summary and a first prompt
\* ------------------------------------------------------------------------

\* the words of a summary, and of a first prompt
MaxSummaryWords == 2
MaxPromptWords == 1

\* a keyword of each category, one with a capital, a plural and a participle
\* no keyword set holds, a keyword after an underscore and one after a hyphen
SummaryWords ==
    { << "p", "l", "a", "n" >>,
      << "f", "i", "x" >>,
      << "c", "l", "e", "a", "n" >>,
      << "t", "e", "s", "t" >>,
      << "c", "h", "e", "c", "k" >>,
      << "d", "o", "c" >>,
      << "a", "d", "d" >>,
      << "F", "i", "x" >>,
      << "t", "e", "s", "t", "s" >>,
      << "p", "l", "a", "n", "n", "i", "n", "g" >>,
      << "n", "e", "w", "_", "f", "i", "x" >>,
      << "r", "e", "-", "c", "h", "e", "c", "k" >> }

PromptWords ==
    { << "a", "d", "d" >>,
      << "P", "l", "a", "n" >>,
      << "t", "e", "s", "t", "s" >> }

\* the words of a list, a space between two
RECURSIVE Sentence(_)
Sentence(ws) ==
    IF ws = << >> THEN << >>
    ELSE IF Len(ws) = 1 THEN ws[1]
    ELSE ws[1] \o << " " >> \o Sentence(Tail(ws))

InitTask ==
    /\ summary \in { Sentence(ws) : ws \in SeqsUpTo(SummaryWords, MaxSummaryWords) }
    /\ firstPrompt \in { Sentence(ws) : ws \in SeqsUpTo(PromptWords, MaxPromptWords) }
    /\ taskType = NotRun
    /\ AnalyzeIdle /\ PromptingIdle /\ WorkflowIdle /\ FlowIdle
    /\ SkillsIdle /\ CollectIdle /\ ServiceIdle
    /\ SendIdle /\ AgentIdle /\ RunIdle /\ CollectorsIdle /\ SetupIdle

InferTaskType ==
    /\ ~ taskType.done
    /\ taskType' = Ended(Returned(inferTaskType(summary, firstPrompt)))
    /\ UNCHANGED << summary, firstPrompt >>
    /\ UNCHANGED << analyzeVars, promptingVars, workflowVars, flowVars >>
    /\ UNCHANGED << skillsVars, collectVars, serviceVars >>
    /\ UNCHANGED << sendVars, agentVars, runVars, collectorsVars, setupVars >>

NextTask == InferTaskType

SpecTask == InitTask /\ [][NextTask]_vars

\* The keyword sets of the seven categories.  A keyword between two word
\* boundaries is a whole word of the text; the two-word keyword "api doc" of
\* documentation adds nothing to its second word.
PlanningWords ==
    { << "p", "l", "a", "n" >>,
      << "a", "r", "c", "h", "i", "t", "e", "c", "t" >>,
      << "d", "e", "s", "i", "g", "n" >>,
      << "s", "t", "r", "u", "c", "t", "u", "r", "e" >>,
      << "s", "c", "a", "f", "f", "o", "l", "d" >>,
      << "o", "u", "t", "l", "i", "n", "e" >>,
      << "s", "t", "r", "a", "t", "e", "g", "y" >> }

DebuggingWords ==
    { << "f", "i", "x" >>,
      << "b", "u", "g" >>,
      << "e", "r", "r", "o", "r" >>,
      << "d", "e", "b", "u", "g" >>,
      << "i", "s", "s", "u", "e" >>,
      << "c", "r", "a", "s", "h" >>,
      << "b", "r", "o", "k", "e", "n" >>,
      << "f", "a", "i", "l" >>,
      << "e", "x", "c", "e", "p", "t", "i", "o", "n" >> }

RefactoringWords ==
    { << "r", "e", "f", "a", "c", "t", "o", "r" >>,
      << "c", "l", "e", "a", "n" >>,
      << "i", "m", "p", "r", "o", "v", "e" >>,
      << "s", "i", "m", "p", "l", "i", "f", "y" >>,
      << "o", "p", "t", "i", "m", "i", "z", "e" >>,
      << "r", "e", "o", "r", "g", "a", "n", "i", "z", "e" >>,
      << "r", "e", "s", "t", "r", "u", "c", "t", "u", "r", "e" >> }

TestingWords ==
    { << "t", "e", "s", "t" >>,
      << "s", "p", "e", "c" >>,
      << "c", "o", "v", "e", "r", "a", "g", "e" >>,
      << "j", "e", "s", "t" >>,
      << "v", "i", "t", "e", "s", "t" >>,
      << "m", "o", "c", "h", "a" >>,
      << "p", "y", "t", "e", "s", "t" >>,
      << "u", "n", "i", "t", "t", "e", "s", "t" >>,
      << "e", "2", "e" >>,
      << "i", "n", "t", "e", "g", "r", "a", "t", "i", "o", "n" >> }

ReviewWords ==
    { << "r", "e", "v", "i", "e", "w" >>,
      << "c", "h", "e", "c", "k" >>,
      << "v", "e", "r", "i", "f", "y" >>,
      << "a", "u", "d", "i", "t" >>,
      << "e", "x", "a", "m", "i", "n", "e" >>,
      << "i", "n", "s", "p", "e", "c", "t" >>,
      << "a", "n", "a", "l", "y", "z", "e" >> }

DocumentationWords ==
    { << "d", "o", "c" >>,
      << "r", "e", "a", "d", "m", "e" >>,
      << "c", "o", "m", "m", "e", "n", "t" >>,
      << "e", "x", "p", "l", "a", "i", "n" >>,
      << "d", "o", "c", "u", "m", "e", "n", "t" >>,
      << "j", "s", "d", "o", "c" >>,
      << "t", "s", "d", "o", "c" >> }

ImplementationWords ==
    { << "i", "m", "p", "l", "e", "m", "e", "n", "t" >>,
      << "c", "r", "e", "a", "t", "e" >>,
      << "b", "u", "i", "l", "d" >>,
      << "a", "d", "d" >>,
      << "f", "e", "a", "t", "u", "r", "e" >>,
      << "d", "e", "v", "e", "l", "o", "p" >>,
      << "w", "r", "i", "t", "e" >>,
      << "m", "a", "k", "e" >>,
      << "n", "e", "w" >> }

TaskTypes ==
    { "planning", "implementation", "debugging", "refactoring", "testing", "review",
      "documentation", "other" }

\* the maximal runs of word characters of a text
WordsOf(t) ==
    { SubSeq(t, p[1], p[2]) : p \in
        { q \in (1..Len(t)) \X (1..Len(t)) :
            /\ q[1] <= q[2]
            /\ \A k \in q[1]..q[2] : t[k] \in WordChars
            /\ (q[1] = 1 \/ t[q[1] - 1] \notin WordChars)
            /\ (q[2] = Len(t) \/ t[q[2] + 1] \notin WordChars) } }

TaskText == toLowerCase(summary \o << " " >> \o firstPrompt)

\* C3: inferTaskType returns one value of the closed set, the first category
\* in the order planning, debugging, refactoring, testing, review,
\* documentation, implementation that has a keyword among the words of the
\* lower-cased "summary firstPrompt", and other iff no category has one.
C3_TaskTypeIsFirstMatch ==
    taskType.done =>
        LET ws == WordsOf(TaskText)
            v == taskType.value
        IN  /\ ~ taskType.threw
            /\ v \in TaskTypes
            /\ v = "planning" <=> ws \cap PlanningWords # {}
            /\ v = "debugging" <=>
                 /\ ws \cap DebuggingWords # {}
                 /\ ws \cap PlanningWords = {}
            /\ v = "refactoring" <=>
                 /\ ws \cap RefactoringWords # {}
                 /\ ws \cap (PlanningWords \cup DebuggingWords) = {}
            /\ v = "testing" <=>
                 /\ ws \cap TestingWords # {}
                 /\ ws \cap (PlanningWords \cup DebuggingWords \cup RefactoringWords) = {}
            /\ v = "review" <=>
                 /\ ws \cap ReviewWords # {}
                 /\ ws \cap (PlanningWords \cup DebuggingWords \cup RefactoringWords
                             \cup TestingWords) = {}
            /\ v = "documentation" <=>
                 /\ ws \cap DocumentationWords # {}
                 /\ ws \cap (PlanningWords \cup DebuggingWords \cup RefactoringWords
                             \cup TestingWords \cup ReviewWords) = {}
            /\ v = "implementation" <=>
                 /\ ws \cap ImplementationWords # {}
                 /\ ws \cap (PlanningWords \cup DebuggingWords \cup RefactoringWords
                             \cup TestingWords \cup ReviewWords \cup DocumentationWords) = {}
            /\ v = "other" <=>
                 ws \cap (PlanningWords \cup DebuggingWords \cup RefactoringWords
                          \cup TestingWords \cup ReviewWords \cup DocumentationWords
                          \cup ImplementationWords) = {}

\* a testing word ahead of a debugging word written with a capital, no
\* planning word: debugging
C3_Witness ==
    /\ taskType.done
    /\ summary = << "t", "e", "s", "t", " ", "F", "i", "x" >>
    /\ WordsOf(TaskText) \cap PlanningWords = {}
    /\ taskType.value = "debugging"

\* ------------------------------------------------------------------------
\* The two aggregators on lists of session records
\* ------------------------------------------------------------------------

\* A list is a run of one record followed by a run of another: the older
\* sessions, then the recent ones.
MaxOlder == 23
MaxRecent == 51

Flags ==
    { "hasStructure", "hasCodeBlocks", "hasExamples", "hasFormatting", "hasFileRefs",
      "hasCodeRefs", "hasUrls", "hasRolePrompt", "hasConstraints", "hasStepByStep",
      "hasOutputFormat", "hasRefinement", "hasFollowUp" }

\* the record analyzeSessionPrompts returns for turns of these lengths on
\* which the detectors of these flags match
PromptRecord(lengths, flags) ==
    [ promptLengths |-> lengths, hasStructure |-> "hasStructure" \in flags,
      hasCodeBlocks |-> "hasCodeBlocks" \in flags, hasExamples |-> "hasExamples" \in flags,
      hasFormatting |-> "hasFormatting" \in flags, hasFileRefs |-> "hasFileRefs" \in flags,
      hasCodeRefs |-> "hasCodeRefs" \in flags, hasUrls |-> "hasUrls" \in flags,
      hasRolePrompt |-> "hasRolePrompt" \in flags,
      hasConstraints |-> "hasConstraints" \in flags,
      hasStepByStep |-> "hasStepByStep" \in flags,
      hasOutputFormat |-> "hasOutputFormat" \in flags,
      turnCount |-> Len(lengths), hasRefinement |-> "hasRefinement" \in flags,
      hasFollowUp |-> "hasFollowUp" \in flags ]

\* a session without turns, and sessions whose turns have the lengths at
\* and beside the limits of the four buckets
PromptRecords ==
    { emptySessionData,
      PromptRecord(<< 2 >>, {"hasStructure"}),
      PromptRecord(<< 2500 >>, {}),
      PromptRecord(<< 99, 100 >>,
                   {"hasFileRefs", "hasRefinement", "hasCodeBlocks", "hasExamples",
                    "hasRolePrompt"}),
      PromptRecord(<< 499, 500, 1999, 2000 >>,
                   {"hasStructure", "hasCodeRefs", "hasUrls", "hasFollowUp", "hasFormatting",
                    "hasConstraints", "hasStepByStep", "hasOutputFormat"}) }

OldSkill == << "o", "l", "d", "-", "1" >>
NewSkill == << "n", "e", "w", "-", "1" >>

TextFullCycle == << "p", "l", "a", "n", ":", " ", "a", "d", "d", " ", "@", "a", ".", "t", "s", ",", " ", "c", "h", "e", "c", "k", ",", " ", "r", "e", "v", "i", "e", "w" >>
TextReadOnly == << "r", "e", "a", "d", " ", "o", "n", "l", "y", ":", " ", "s", "e", "e", " ", "b", ".", "e", "n", "v" >>

TextVerifyOnly == << "m", "a", "k", "e", " ", "s", "u", "r", "e", " ", "@", "a", ".", "t", "s", ",", " ", "d", "o", "n", "e", " ", "w", "h", "e", "n", " ", "o", "k" >>

\* what analyzeSessionWorkflow returns for a transcript of one human message
WorkflowRecord(text, toolSkills) ==
    analyzeSessionWorkflow(<< [ role |-> "human", content |-> StringContent(text) ] >>,
                           toolSkills).value

\* sessions without turns, with no skill, with one and with two from the
\* tool calls, a full-cycle session with a reference, one that only sets a
\* constraint, and one that asks for a verification and names a file
WorkflowRecords ==
    { emptyWorkflowData(<< >>),
      emptyWorkflowData(<< OldSkill >>),
      emptyWorkflowData(<< NewSkill >>),
      emptyWorkflowData(<< OldSkill, NewSkill >>),
      WorkflowRecord(TextFullCycle, << NewSkill >>),
      WorkflowRecord(TextReadOnly, << >>),
      WorkflowRecord(TextVerifyOnly, << >>) }

InitAggregate ==
    /\ \/ /\ \E a, b \in PromptRecords :
                \E n1 \in 0..MaxOlder, n2 \in 0..MaxRecent :
                    promptSessions = Repeat(a, n1) \o Repeat(b, n2)
          /\ workflowSessions = << >>
       \/ /\ \E a, b \in WorkflowRecords :
                \E n1 \in 0..MaxOlder, n2 \in 0..MaxRecent :
                    workflowSessions = Repeat(a, n1) \o Repeat(b, n2)
          /\ promptSessions = << >>
    /\ promptingMetrics = NotRun
    /\ workflowMetrics = NotRun
    /\ AnalyzeIdle /\ FlowIdle /\ TaskIdle
    /\ SkillsIdle /\ CollectIdle /\ ServiceIdle
    /\ SendIdle /\ AgentIdle /\ RunIdle /\ CollectorsIdle /\ SetupIdle

AggregatePrompting ==
    /\ ~ promptingMetrics.done
    /\ promptingMetrics' = Ended(Returned(aggregatePromptingMetrics(promptSessions)))
    /\ UNCHANGED << promptSessions, workflowVars >>
    /\ UNCHANGED << analyzeVars, flowVars, taskVars >>
    /\ UNCHANGED << skillsVars, collectVars, serviceVars >>
    /\ UNCHANGED << sendVars, agentVars, runVars, collectorsVars, setupVars >>

AggregateWorkflow ==
    /\ ~ workflowMetrics.done
    /\ workflowMetrics' = Ended(Returned(aggregateWorkflowMetrics(workflowSessions)))
    /\ UNCHANGED << workflowSessions, promptingVars >>
    /\ UNCHANGED << analyzeVars, flowVars, taskVars >>
    /\ UNCHANGED << skillsVars, collectVars, serviceVars >>
    /\ UNCHANGED << sendVars, agentVars, runVars, collectorsVars, setupVars >>

NextAggregate == AggregatePrompting \/ AggregateWorkflow

SpecAggregate == InitAggregate /\ [][NextAggregate]_vars

\* the fields of the two results
PromptingRates ==
    { "structuredPromptRate", "contextProvisionRate", "refinementRate", "followUpRate" }
PromptingNumbers ==
    PromptingRates \cup
    { "avgPromptLength", "maxPromptLength", "avgTurnsBeforeResolution", "totalPromptsAnalyzed" }
PromptingBooleans ==
    { "usesCodeBlocks", "usesExamples", "usesFormatting", "referencesFiles", "referencesCode",
      "referencesUrls", "usesRolePrompting", "usesConstraints", "usesStepByStep",
      "specifiesOutputFormat" }
Buckets == { "short", "medium", "long", "detailed" }
SessionCounters ==
    { "sessionsWithPlan", "sessionsWithVerification", "sessionsWithReview", "fullFlowSessions" }
WorkflowCounts ==
    SessionCounters \cup
    { "skillUsageCount", "uniqueSkillsCount", "atReferencesCount", "uniqueFilesReferenced",
      "pathsInPrompts", "totalSessionsAnalyzed" }
WorkflowNumbers ==
    WorkflowCounts \cup
    { "skillsPerSession", "atReferencesPerSession", "avgActionsPerSession", "directiveRate" }
WorkflowBooleans ==
    { "usesPlanFiles", "usesConfigFiles", "definesProcess", "setsConstraints",
      "requestsVerification", "definesAcceptanceCriteria" }

PromptingFields ==
    PromptingNumbers \cup PromptingBooleans \cup { "promptLengthDistribution", "analysisVersion" }
WorkflowFields ==
    WorkflowNumbers \cup WorkflowBooleans \cup { "skillsUsed", "analysisVersion" }

\* the all-zero/false structures
IsZeroPrompting(v) ==
    /\ DOMAIN v = PromptingFields
    /\ \A f \in PromptingNumbers : v[f] = 0
    /\ \A f \in PromptingBooleans : v[f] = FALSE
    /\ DOMAIN v.promptLengthDistribution = Buckets
    /\ \A b \in Buckets : v.promptLengthDistribution[b] = 0
    /\ v.analysisVersion = "1.0"

IsZeroWorkflow(v) ==
    /\ DOMAIN v = WorkflowFields
    /\ \A f \in WorkflowNumbers : v[f] = 0
    /\ \A f \in WorkflowBooleans : v[f] = FALSE
    /\ v.skillsUsed = << >>
    /\ v.analysisVersion = "1.0"

NoPromptLengths == \A k \in DOMAIN promptSessions : promptSessions[k].promptLengths = << >>

\* the window of aggregateWorkflowMetrics: the last min(N, 50) sessions
WindowSize ==
    IF Len(workflowSessions) < 50 THEN Len(workflowSessions) ELSE 50
WindowStart == Len(workflowSessions) - WindowSize + 1
Window == [ k \in 1..WindowSize |-> workflowSessions[WindowStart + k - 1] ]

\* C1: aggregateWorkflowMetrics of N records uses exactly the last min(N, 50)
\* of them: totalSessionsAnalyzed is min(N, 50), the result is the result for
\* those records alone, and a skill that only records before them hold is not
\* in skillsUsed.
C1_OnlyLastFiftySessions ==
    workflowMetrics.done =>
        /\ ~ workflowMetrics.threw
        /\ workflowMetrics.value.totalSessionsAnalyzed = WindowSize
        /\ workflowMetrics.value = aggregateWorkflowMetrics(Window)
        /\ \A k \in 1..(WindowStart - 1) :
              \A i \in DOMAIN workflowSessions[k].skills :
                 (\A j \in WindowStart..Len(workflowSessions) :
                     workflowSessions[k].skills[i] \notin Range(workflowSessions[j].skills))
                 => workflowSessions[k].skills[i] \notin Range(workflowMetrics.value.skillsUsed)

\* 51 sessions, the oldest alone with the skill old-1: 50 analysed, the skill
\* not among the skills used
C1_Witness ==
    /\ workflowMetrics.done
    /\ Len(workflowSessions) = 51
    /\ workflowSessions[1].skills = << OldSkill >>
    /\ \A k \in 2..51 : workflowSessions[k].skills = << NewSkill >>
    /\ workflowMetrics.value.totalSessionsAnalyzed = 50
    /\ workflowMetrics.value.skillsUsed = << NewSkill >>

\* C4: neither aggregator raises on absent data: aggregatePromptingMetrics
\* returns the all-zero/false structure, with its version, when the list is
\* empty or no session has a prompt length, and aggregateWorkflowMetrics when
\* the list is empty; totalPromptsAnalyzed and totalSessionsAnalyzed are 0
\* in those cases only.
C4_NoDataGivesZeroResult ==
    /\ promptingMetrics.done =>
          /\ ~ promptingMetrics.threw
          /\ NoPromptLengths => IsZeroPrompting(promptingMetrics.value)
          /\ promptingMetrics.value.totalPromptsAnalyzed = 0 => NoPromptLengths
    /\ workflowMetrics.done =>
          /\ ~ workflowMetrics.threw
          /\ workflowSessions = << >> => IsZeroWorkflow(workflowMetrics.value)
          /\ workflowMetrics.value.totalSessionsAnalyzed = 0 => workflowSessions = << >>

\* sessions without a turn aggregated by the one, no session by the other
C4_Witness ==
    /\ promptingMetrics.done
    /\ Len(promptSessions) > 1
    /\ NoPromptLengths
    /\ IsZeroPrompting(promptingMetrics.value)
    /\ workflowMetrics.done
    /\ workflowSessions = << >>
    /\ IsZeroWorkflow(workflowMetrics.value)

\* r is the integer nearest to num / den, a half rounding up
IsNearest(r, num, den) ==
    /\ 2 * den * r <= 2 * num + den
    /\ 2 * num + den < 2 * den * (r + 1)

\* the number of sessions of the list with a flag among fs
SessionsWith(fs) ==
    Cardinality({ k \in DOMAIN promptSessions : \E f \in fs : promptSessions[k][f] })

\* C8: with a non-empty pool each rate of aggregatePromptingMetrics is
\* round(100 * k / S), S the number of sessions of the list and k the number
\* of them with the flag (for contextProvisionRate, any of the three
\* reference flags).
C8_RatesAreRoundedSessionShares ==
    (promptingMetrics.done /\ ~ NoPromptLengths) =>
        LET v == promptingMetrics.value
            S == Len(promptSessions)
        IN  /\ IsNearest(v.structuredPromptRate, 100 * SessionsWith({"hasStructure"}), S)
            /\ IsNearest(v.contextProvisionRate,
                         100 * SessionsWith({"hasFileRefs", "hasCodeRefs", "hasUrls"}), S)
            /\ IsNearest(v.refinementRate, 100 * SessionsWith({"hasRefinement"}), S)
            /\ IsNearest(v.followUpRate, 100 * SessionsWith({"hasFollowUp"}), S)

\* the ranges of the four buckets
InBucket(b, l) ==
    CASE b = "short" -> l < 100
      [] b = "medium" -> 100 <= l /\ l < 500
      [] b = "long" -> 500 <= l /\ l < 2000
      [] b = "detailed" -> l >= 2000

\* the number of pooled prompt lengths in a bucket, and in all
BucketCount(b) ==
    Sum([ k \in DOMAIN promptSessions |->
            Cardinality({ i \in DOMAIN promptSessions[k].promptLengths :
                            InBucket(b, promptSessions[k].promptLengths[i]) }) ])
PoolSize == Sum([ k \in DOMAIN promptSessions |-> Len(promptSessions[k].promptLengths) ])

\* C9: every pooled prompt length is in exactly one of the ranges short
\* < 100, medium [100, 500), long [500, 2000), detailed >= 2000, and each
\* bucket of promptLengthDistribution is round(100 * bucketCount / poolSize).
C9_BucketsAreRoundedPoolShares ==
    (promptingMetrics.done /\ ~ NoPromptLengths) =>
        /\ \A k \in DOMAIN promptSessions :
              \A i \in DOMAIN promptSessions[k].promptLengths :
                 Cardinality({ b \in Buckets :
                                 InBucket(b, promptSessions[k].promptLengths[i]) }) = 1
        /\ \A b \in Buckets :
              IsNearest(promptingMetrics.value.promptLengthDistribution[b],
                        100 * BucketCount(b), PoolSize)

\* C10: the rates and the buckets of aggregatePromptingMetrics are integers
\* of 0..100, directiveRate (in hundredths) is an integer of 0..100, the
\* count fields of both results are non-negative integers, and no
\* per-session counter exceeds totalSessionsAnalyzed.
C10_RatesAndCountsInRange ==
    /\ promptingMetrics.done =>
          LET v == promptingMetrics.value
          IN  /\ \A f \in PromptingRates : v[f] \in 0..100
              /\ \A b \in Buckets : v.promptLengthDistribution[b] \in 0..100
              /\ v.totalPromptsAnalyzed \in Nat
              /\ v.maxPromptLength \in Nat
    /\ workflowMetrics.done =>
          LET w == workflowMetrics.value
          IN  /\ w.directiveRate \in 0..100
              /\ \A f \in WorkflowCounts : w[f] \in Nat
              /\ \A f \in SessionCounters : w[f] <= w.totalSessionsAnalyzed

\* more than 50 full-cycle sessions with a skill: every counter at its limit,
\* 50, and directiveRate at 1; the other aggregator run on no session
C10_Witness ==
    /\ workflowMetrics.done
    /\ Len(workflowSessions) > 50
    /\ workflowMetrics.value.directiveRate = 100
    /\ \A f \in SessionCounters : workflowMetrics.value[f] = 50
    /\ promptingMetrics.done
    /\ \A f \in PromptingRates : promptingMetrics.value[f] = 0

\* the session flag behind each boolean field of aggregatePromptingMetrics
FlagOfField ==
    [ usesCodeBlocks |-> "hasCodeBlocks", usesExamples |-> "hasExamples",
      usesFormatting |-> "hasFormatting", referencesFiles |-> "hasFileRefs",
      referencesCode |-> "hasCodeRefs", referencesUrls |-> "hasUrls",
      usesRolePrompting |-> "hasRolePrompt", usesConstraints |-> "hasConstraints",
      usesStepByStep |-> "hasStepByStep", specifiesOutputFormat |-> "hasOutputFormat" ]

\* the list without its last session
AllButLast(sessions) == SubSeq(sessions, 1, Len(sessions) - 1)

\* C11: each boolean field of aggregatePromptingMetrics is true iff at least
\* one session of the list has the corresponding flag, and a field that is
\* true for the list without its last session is true for the list.
C11_BooleansAreOrOverSessions ==
    promptingMetrics.done =>
        /\ DOMAIN FlagOfField = PromptingBooleans
        /\ \A f \in PromptingBooleans :
              promptingMetrics.value[f] =
                  (Cardinality({ k \in DOMAIN promptSessions :
                                   promptSessions[k][FlagOfField[f]] }) >= 1)
        /\ promptSessions # << >> =>
              LET before == aggregatePromptingMetrics(AllButLast(promptSessions))
              IN  \A f \in PromptingBooleans : before[f] => promptingMetrics.value[f]

\* code blocks in the older sessions only, formatting in none: the one field
\* true, and true before the last session was added, the other false
C11_Witness ==
    /\ promptingMetrics.done
    /\ Len(promptSessions) > 2
    /\ promptSessions[1].hasCodeBlocks
    /\ ~ promptSessions[Len(promptSessions)].hasCodeBlocks
    /\ \A k \in DOMAIN promptSessions : ~ promptSessions[k].hasFormatting
    /\ promptingMetrics.value.usesCodeBlocks
    /\ aggregatePromptingMetrics(AllButLast(promptSessions)).usesCodeBlocks
    /\ ~ promptingMetrics.value.usesFormatting

\* the turns of all sessions of the list
TurnCountSum == Sum([ k \in DOMAIN promptSessions |-> promptSessions[k].turnCount ])

\* C12: totalPromptsAnalyzed is the sum of the sessions' turnCount, and is
\* the number of sessions when every session has exactly one turn.
C12_TotalIsSumOfTurnCounts ==
    promptingMetrics.done =>
        /\ promptingMetrics.value.totalPromptsAnalyzed = TurnCountSum
        /\ (\A k \in DOMAIN promptSessions : promptSessions[k].turnCount = 1)
              => promptingMetrics.value.totalPromptsAnalyzed = Len(promptSessions)

\* C12 as stated: totalPromptsAnalyzed is the sum of the sessions' turnCount,
\* and is the number of sessions only when every session has exactly one turn.
C12_TotalIsSessionCountOnlyForSingleTurns ==
    promptingMetrics.done =>
        /\ promptingMetrics.value.totalPromptsAnalyzed = TurnCountSum
        /\ promptingMetrics.value.totalPromptsAnalyzed = Len(promptSessions)
              => \A k \in DOMAIN promptSessions : promptSessions[k].turnCount = 1

\* two sessions without a turn and two of two turns: four turns analysed in
\* four sessions, none of them of one turn
C12_Witness ==
    /\ promptingMetrics.done
    /\ Len(promptSessions) = 4
    /\ promptSessions[1].turnCount = 0 /\ promptSessions[2].turnCount = 0
    /\ promptSessions[3].turnCount = 2 /\ promptSessions[4].turnCount = 2
    /\ promptingMetrics.value.totalPromptsAnalyzed = 4

\* ------------------------------------------------------------------------
\* detectSkills on one message
\* ------------------------------------------------------------------------

MaxLines == 3

\* lines with and without a slash at their start, the name behind it with
\* and without a hyphen or a colon, alone, followed by text or by a path
SkillLines ==
    { << "H", "o", "l", "a" >>,
      << "/", "w", "r", "i", "t", "i", "n", "g", "-", "p", "l", "a", "n", "s" >>,
      << "/", "b", "r", "a", "i", "n", "s", "t", "o", "r", "m" >>,
      << "/", "a", ":", "b", " ", "c" >>,
      << "x", " ", "/", "a", "-", "b" >>,
      << "/", "v", "a", "r", "/", "l", "o", "g" >>,
      << "/", "a", "-", "b", "/", "c" >>,
      << "/", "a", "-", "b", "-", "/", "x" >>,
      << "/", "-", "a", "-", "b" >>,
      << >> }

InitSkills ==
    /\ \E lines \in SeqsUpTo(SkillLines, MaxLines) : userMessage = join(lines, << NL >>)
    /\ detectedSkills = NotRun
    /\ AnalyzeIdle /\ PromptingIdle /\ WorkflowIdle /\ FlowIdle /\ TaskIdle
    /\ CollectIdle /\ ServiceIdle
    /\ SendIdle /\ AgentIdle /\ RunIdle /\ CollectorsIdle /\ SetupIdle

DetectSkills ==
    /\ ~ detectedSkills.done
    /\ detectedSkills' = Ended(Returned(detectSkills(userMessage)))
    /\ UNCHANGED userMessage
    /\ UNCHANGED << analyzeVars, promptingVars, workflowVars, flowVars, taskVars >>
    /\ UNCHANGED << collectVars, serviceVars >>
    /\ UNCHANGED << sendVars, agentVars, runVars, collectorsVars, setupVars >>

NextSkills == DetectSkills

SpecSkills == InitSkills /\ [][NextSkills]_vars

\* the lines of a text, split at its line breaks
RECURSIVE LinesOf(_)
LinesOf(t) ==
    IF \A k \in DOMAIN t : t[k] # NL THEN << t >>
    ELSE LET k == CHOOSE i \in DOMAIN t : t[i] = NL /\ \A j \in 1..(i - 1) : t[j] # NL
         IN  << SubSeq(t, 1, k - 1) >> \o LinesOf(SubSeq(t, k + 1, Len(t)))

NameChars == WordChars \cup { "-", ":" }

\* a hyphen or a colon with a character of the name before and after it
HasInnerSeparator(name) == \E i \in 2..(Len(name) - 1) : name[i] \in { "-", ":" }

\* the ends of the skill names a line can start with: behind the slash a
\* word character, then name characters with a separator among them, and
\* neither a slash nor a word character next
SkillEnds(line) ==
    { e \in 3..Len(line) :
        /\ line[1] = "/"
        /\ line[2] \in WordChars
        /\ \A i \in 2..e : line[i] \in NameChars
        /\ HasInnerSeparator(SubSeq(line, 2, e))
        /\ e < Len(line) => line[e + 1] \notin WordChars \cup { "/" } }

\* the skill of each line that has one, the longest name the line allows
RECURSIVE SkillsOfLines(_)
SkillsOfLines(lines) ==
    IF lines = << >> THEN << >>
    ELSE LET ends == SkillEnds(lines[1])
         IN  (IF ends = {} THEN << >>
              ELSE << SubSeq(lines[1], 2, CHOOSE e \in ends : \A o \in ends : o <= e) >>)
             \o SkillsOfLines(Tail(lines))

IsCommandLine(line) ==
    /\ Len(line) >= 2
    /\ line[1] = "/"
    /\ line[2] \in WordChars
    /\ \E e \in 2..Len(line) :
          /\ \A i \in 2..e : line[i] \in NameChars
          /\ e < Len(line) => line[e + 1] \in WhiteSpace

\* the name of a slash command
CommandName(line) ==
    SubSeq(line, 2, CHOOSE e \in 2..Len(line) :
                        /\ \A i \in 2..e : line[i] \in NameChars
                        /\ e < Len(line) => line[e + 1] \notin NameChars)

RECURSIVE CommandsOfLines(_)
CommandsOfLines(lines) ==
    IF lines = << >> THEN << >>
    ELSE (IF IsCommandLine(lines[1]) THEN << CommandName(lines[1]) >> ELSE << >>)
         \o CommandsOfLines(Tail(lines))

\* C14: in a message whose lines with a slash at their start are slash
\* commands, detectSkills returns the name of every one of them, in order,
\* on any line, also a name of one word without hyphen and colon: Hola,
\* /writing-plans, /brainstorm gives writing-plans, brainstorm.
C14_EveryLineStartCommandIsReturned ==
    detectedSkills.done =>
        LET lines == LinesOf(userMessage)
        IN  (\A l \in DOMAIN lines :
                lines[l] = << >> \/ lines[l][1] # "/" \/ IsCommandLine(lines[l]))
            => detectedSkills.value = CommandsOfLines(lines)

\* ------------------------------------------------------------------------
\* analyzeSessionWorkflow on a session with skills from the tool calls
\* ------------------------------------------------------------------------

MaxTurns == 2

\* turns that name a file twice, two files, a plan file by an explicit path,
\* a skill and a path, a skill alone
TextTwice == << "s", "e", "e", " ", "@", "a", ".", "t", "s", " ", "@", "a", ".", "t", "s" >>
TextTwoFiles == << "@", "a", ".", "t", "s", " ", "@", "b", ".", "e", "n", "v" >>
TextPlanFile == << "r", "e", "a", "d", " ", "p", "l", "a", "n", "/", "x", ".", "m", "d" >>
TextSkillAndPath == << "/", "a", "-", "b", NL, "s", "e", "e", " ", "c", ".", "t", "s" >>
TextSkill == << "/", "a", "-", "b", " ", "x" >>

SessionMessages ==
    { [ role |-> "human", content |-> StringContent(t) ] :
        t \in { TextTwice, TextTwoFiles, TextPlanFile, TextSkillAndPath, TextSkill, TextBlank } }
    \cup { [ role |-> "assistant", content |-> StringContent(TextTwoFiles) ],
           [ role |-> "human",
             content |-> ArrayContent(<< TextBlock(TextSkill), TextBlock(TextTwice) >>) ] }

\* what detectSkillsFromToolCalls gives: one entry per Skill tool call, a
\* skill called twice listed twice
ToolCallSkills ==
    { << >>, << SkillName >>, << OldSkill, OldSkill >>, << SkillName, NewSkill >> }

InitSession ==
    /\ messages \in SeqsUpTo(SessionMessages, MaxTurns)
    /\ skillsFromToolCalls \in ToolCallSkills
    /\ promptData = NotRun
    /\ workflowData = NotRun
    /\ PromptingIdle /\ WorkflowIdle /\ FlowIdle /\ TaskIdle
    /\ SkillsIdle /\ CollectIdle /\ ServiceIdle
    /\ SendIdle /\ AgentIdle /\ RunIdle /\ CollectorsIdle /\ SetupIdle

AnalyzeSession ==
    /\ ~ workflowData.done
    /\ workflowData' = Ended(analyzeSessionWorkflow(messages, skillsFromToolCalls))
    /\ UNCHANGED << messages, skillsFromToolCalls, promptData >>
    /\ UNCHANGED << promptingVars, workflowVars, flowVars, taskVars >>
    /\ UNCHANGED << skillsVars, collectVars, serviceVars >>
    /\ UNCHANGED << sendVars, agentVars, runVars, collectorsVars, setupVars >>

NextSession == AnalyzeSession

SpecSession == InitSession /\ [][NextSession]_vars

NoRepeats(s) == \A i, j \in DOMAIN s : s[i] = s[j] => i = j

\* the skills of the turns of the session
TurnSkills ==
    UNION { Range(SkillsOfLines(LinesOf(RefTurns(messages)[k]))) :
              k \in DOMAIN RefTurns(messages) }

\* C15: the skills of the record of analyzeSessionWorkflow hold no
\* identifier twice and are the skills detected in the human turns together
\* with the supplied identifiers, also when the session has no non-blank
\* human turn, where they are the supplied identifiers.
C15_SkillsAreDuplicateFreeUnion ==
    WorkflowReturned =>
        /\ NoRepeats(workflowData.value.skills)
        /\ Range(workflowData.value.skills) = TurnSkills \cup Range(skillsFromToolCalls)
        /\ RefTurns(messages) = << >> =>
              Range(workflowData.value.skills) = Range(skillsFromToolCalls)

\* the references of a turn: the @-mentions and the explicit paths matched
\* in it
TurnReferences(t) ==
    Range(Matched(t, MatchAll(atRefRe, {}, t, 1)))
    \cup Range(Matched(t, GroupMatches(explicitPrefixRe, explicitGroupRe, { "i" }, t, 1)))

\* C16: in the record of analyzeSessionWorkflow atReferences.count is the
\* sum over the turns of the number of distinct references of the turn,
\* uniqueFiles is the duplicate-free union of the turns' references,
\* hasPlanFiles and hasConfigFiles are ORs over the turns, and count is at
\* least the size of uniqueFiles.
C16_ReferencesSummedFilesUnited ==
    WorkflowReturned =>
        LET at == workflowData.value.atReferences
            turns == RefTurns(messages)
        IN  /\ at.count = Sum([ k \in DOMAIN turns |-> Cardinality(TurnReferences(turns[k])) ])
            /\ NoRepeats(at.uniqueFiles)
            /\ Range(at.uniqueFiles) = UNION { TurnReferences(turns[k]) : k \in DOMAIN turns }
            /\ at.hasPlanFiles = \E k \in DOMAIN turns : detectAtReferences(turns[k]).hasPlanFiles
            /\ at.hasConfigFiles =
                  \E k \in DOMAIN turns : detectAtReferences(turns[k]).hasConfigFiles
            /\ at.count >= Len(at.uniqueFiles)

\* "see @a.ts @a.ts" then "@a.ts @b.env": one reference and two, three
\* counted, two files, a configuration file among them and no plan file
C16_Witness ==
    /\ WorkflowReturned
    /\ messages = << [ role |-> "human", content |-> StringContent(TextTwice) ],
                     [ role |-> "human", content |-> StringContent(TextTwoFiles) ] >>
    /\ workflowData.value.atReferences.count = 3
    /\ workflowData.value.atReferences.uniqueFiles =
          << << "@", "a", ".", "t", "s" >>, << "@", "b", ".", "e", "n", "v" >> >>
    /\ workflowData.value.atReferences.hasConfigFiles
    /\ ~ workflowData.value.atReferences.hasPlanFiles

\* C17: over the windowed sessions skillsUsed is the duplicate-free union of
\* the sessions' skills and uniqueSkillsCount its size, skillUsageCount is
\* the number of skill entries of all sessions, repeats counted,
\* skillsPerSession (in tenths) is skillUsageCount over the number of
\* windowed sessions rounded to one decimal, and uniqueSkillsCount is at most
\* skillUsageCount.
C17_SkillCountsOverWindow ==
    workflowMetrics.done =>
        LET w == workflowMetrics.value
            union == UNION { Range(Window[k].skills) : k \in DOMAIN Window }
            entries == Sum([ k \in DOMAIN Window |-> Len(Window[k].skills) ])
        IN  /\ NoRepeats(w.skillsUsed)
            /\ Range(w.skillsUsed) = union
            /\ w.uniqueSkillsCount = Cardinality(union)
            /\ w.skillUsageCount = entries
            /\ WindowSize > 0 => IsNearest(w.skillsPerSession, 10 * entries, WindowSize)
            /\ WindowSize = 0 => w.skillsPerSession = 0
            /\ w.uniqueSkillsCount <= w.skillUsageCount

\* 3 sessions with the skills old-1 and new-1 followed by 4 with new-1: two
\* skills used, ten entries, 10 / 7 = 1.4 per session
C17_Witness ==
    /\ workflowMetrics.done
    /\ Len(workflowSessions) = 7
    /\ \A k \in 1..3 : workflowSessions[k].skills = << OldSkill, NewSkill >>
    /\ \A k \in 4..7 : workflowSessions[k].skills = << NewSkill >>
    /\ workflowMetrics.value.skillsUsed = << OldSkill, NewSkill >>
    /\ workflowMetrics.value.uniqueSkillsCount = 2
    /\ workflowMetrics.value.skillUsageCount = 10
    /\ workflowMetrics.value.skillsPerSession = 14

\* the number of windowed sessions with a skill, a defined process or a
\* constraint
DirectiveInWindow ==
    Cardinality({ k \in DOMAIN Window :
                    \/ Window[k].skills # << >>
                    \/ Window[k].metaCognition.definesProcess
                    \/ Window[k].metaCognition.setsConstraints })

\* C18: directiveRate (in hundredths) is d / n rounded to two decimals, n the
\* number of windowed sessions and d the number of them with at least one
\* skill, a defined process or a constraint.
C18_DirectiveRateIsRoundedShare ==
    (workflowMetrics.done /\ WindowSize > 0) =>
        IsNearest(workflowMetrics.value.directiveRate, 100 * DirectiveInWindow, WindowSize)

\* ------------------------------------------------------------------------
\* collectClaudeCode: the loop over the sessions of a tool
\* ------------------------------------------------------------------------

MaxSessions == 3

\* summaries of the sessions index: none, and summaries with a keyword of
\* one detector, of the other, of both and of neither
CollectSummaries ==
    { << >>,
      << "P", "l", "a", "n", " ", "t", "h", "e", " ", "A", "P", "I" >>,
      << "p", "l", "a", "n", "n", "i", "n", "g" >>,
      << "a", "r", "c", "h", "i", "t", "e", "c", "t", "u", "r", "e" >>,
      << "s", "t", "r", "u", "c", "t", "u", "r", "e" >>,
      << "f", "i", "x", " ", "i", "t" >> }

CollectPrompts == { << >>, << "a", "d", "d" >> }

InitCollect ==
    /\ summaries = << >>
    /\ usesPlanMode = FALSE
    /\ summary = << >>
    /\ firstPrompt = << >>
    /\ taskType = NotRun
    /\ AnalyzeIdle /\ PromptingIdle /\ WorkflowIdle /\ FlowIdle
    /\ SkillsIdle /\ ServiceIdle
    /\ SendIdle /\ AgentIdle /\ RunIdle /\ CollectorsIdle /\ SetupIdle

\* one pass of the loop over the session files for a session analyzeSession
\* could read: the task type inferred, the summary tested for plan mode.
\* A session it could not read leaves no trace in this state.
CollectSession ==
    /\ Len(summaries) < MaxSessions
    /\ \E s \in CollectSummaries, p \in CollectPrompts :
          /\ summary' = s
          /\ firstPrompt' = p
          /\ taskType' = Ended(Returned(inferTaskType(s, p)))
          /\ summaries' = Append(summaries, s)
          /\ usesPlanMode' = IF detectsPlanMode(s) THEN TRUE ELSE usesPlanMode
    /\ UNCHANGED << analyzeVars, promptingVars, workflowVars, flowVars >>
    /\ UNCHANGED << skillsVars, serviceVars >>
    /\ UNCHANGED << sendVars, agentVars, runVars, collectorsVars, setupVars >>

NextCollect == CollectSession

SpecCollect == InitCollect /\ [][NextCollect]_vars

\* C19: a summary detectsPlanMode accepts makes inferTaskType return
\* planning whatever the first prompt, detectsPlanMode of the empty summary
\* is false, and usesPlanMode is true iff detectsPlanMode accepts the
\* summary of at least one analysed session.
C19_PlanModeImpliesPlanningTask ==
    /\ taskType.done =>
          (detectsPlanMode(summary) => taskType.value = "planning")
    /\ ~ detectsPlanMode(<< >>)
    /\ usesPlanMode = (\E k \in DOMAIN summaries : detectsPlanMode(summaries[k]))

\* ------------------------------------------------------------------------
\* service: installing and removing the scheduled task
\*
\* A command line is the list of its words. The text of the plist and of
\* the crontab is not part of this state: the plist is on disk or not, and
\* the crontab handed to "crontab -" is one word.
\* ------------------------------------------------------------------------

MaxCommands == 6

TASK_NAME == "MonitorIA-Agent"
PLIST_PATH == "~/Library/LaunchAgents/com.monitor-ia.agent.plist"

Platforms == { "win32", "darwin", "linux" }

\* config.syncIntervalHours, 0 for a configuration without it
SyncIntervalHours == { 0, 6, 12 }

\* the outcome of a run: the commands handed to execSync, in order, and
\* whether the plist is on disk afterwards
Outcome(executed, hasPlist) == [ executed |-> executed, plistExists |-> hasPlist ]

\* execSync('which node'), 'where node' on Windows; its failure is caught
getNodePath(os) == IF os = "win32" THEN << "where", "node" >> ELSE << "which", "node" >>

\* the task is deleted, its failure ignored, then created
installWindows(intervalHours, hasPlist) ==
    { Outcome(<< << "schtasks", "/Delete", "/TN", TASK_NAME, "/F" >>,
                 << "schtasks", "/Create", "/TN", TASK_NAME, "/TR", "run-once",
                    "/SC", "MINUTE", "/MO", ToString(intervalHours * 60), "/F" >> >>, hasPlist) }

uninstallWindows(hasPlist) ==
    { Outcome(<< << "schtasks", "/Delete", "/TN", TASK_NAME, "/F" >> >>, hasPlist) }

\* TASK_NAME and 'monitor-ia' as characters
TaskNameText == << "M", "o", "n", "i", "t", "o", "r", "I", "A", "-", "A", "g", "e", "n", "t" >>
MonitorIaText == << "m", "o", "n", "i", "t", "o", "r", "-", "i", "a" >>

\* the crontab line of the agent; the home directory is written ~ and
\* getNodePath() gave node
cronLine(intervalHours) ==
    << "0", " ", "*", "/" >> \o decimal(intervalHours) \o
    << " ", "*", " ", "*", " ", "*", " ", "c", "d", " ", "~", "/", ".", "m", "o", "n", "i", "t", "o", "r", "-", "i", "a", "/", "a", "g", "e", "n", "t", " ", "&", "&", " ", "n", "o", "d", "e", " ", "~", "/", ".", "m", "o", "n", "i", "t", "o", "r", "-", "i", "a", "/", "a", "g", "e", "n", "t", "/", "d", "i", "s", "t", "/", "i", "n", "d", "e", "x", ".", "j", "s", " ", "r", "u", "n", "-", "o", "n", "c", "e", " ", ">", ">", " ", "~", "/", ".", "m", "o", "n", "i", "t", "o", "r", "-", "i", "a", "/", "a", "g", "e", "n", "t", ".", "l", "o", "g", " ", "2", ">", "&", "1" >>

\* the filter of both functions keeps a line that names neither the task
\* nor monitor-ia
IsKept(l) == ~ stringIncludes(l, TaskNameText) /\ ~ stringIncludes(l, MonitorIaText)
filtered(existing) == join(SelectSeq(split(existing, NL), IsKept), << NL >>)

\* what sh makes of echo "text" | crontab - for a text without dollar,
\* backquote or backslash and with only word characters between a closing
\* and the next opening quote: the double quotes of the text end and reopen
\* the quoting and are dropped, echo adds a newline, and an odd number of
\* them leaves a quote open, a syntax error that makes execSync raise
echoToCrontab(text, tab) ==
    IF Len(SelectSeq(text, LAMBDA c : c = DQuote)) % 2 = 1 THEN tab
    ELSE [ exists |-> TRUE, text |-> SelectSeq(text, LAMBDA c : c # DQuote) \o << NL >> ]

\* an outcome on Linux: the plist is not touched
LinuxOutcome(executed, hasPlist, tab) ==
    [ executed |-> executed, plistExists |-> hasPlist, crontab |-> tab ]

\* the crontab is read, its failure ignored, then written
installLinux(intervalHours, hasPlist, tab) ==
    LET existing == IF tab.exists THEN tab.text ELSE << >>
        kept == filtered(existing)
        newCrontab == (IF trim(kept) # << >> THEN trim(kept) \o << NL >> ELSE << >>) \o
                      << "#", " " >> \o TaskNameText \o << NL >> \o
                      cronLine(intervalHours) \o << NL >>
    IN  { LinuxOutcome(<< << "crontab", "-l", "2>/dev/null" >>,
                          << "echo", "newCrontab", "|", "crontab", "-" >> >>, hasPlist,
                       echoToCrontab(newCrontab, tab)) }

\* the crontab is written only if it could be read
uninstallLinux(hasPlist, tab) ==
    IF ~ tab.exists
    THEN { LinuxOutcome(<< << "crontab", "-l", "2>/dev/null" >> >>, hasPlist, tab) }
    ELSE { LinuxOutcome(<< << "crontab", "-l", "2>/dev/null" >>,
                           << "echo", "filtered", "|", "crontab", "-" >> >>, hasPlist,
                        echoToCrontab(filtered(tab.text), tab)) }

\* the agent is unloaded, its failure ignored; the plist is written and the
\* agent loaded, unless making the directory or writing the file raised
installMac(hasPlist) ==
    { Outcome(<< << "launchctl", "unload", PLIST_PATH >> >>, hasPlist),
      Outcome(<< << "launchctl", "unload", PLIST_PATH >> >>, TRUE),
      Outcome(<< << "launchctl", "unload", PLIST_PATH >>,
                 << "launchctl", "load", PLIST_PATH >> >>, TRUE) }

\* the agent is unloaded, its failure ignored; the plist is removed if it is
\* there, or stays when unlinkSync raises
uninstallMac(hasPlist) ==
    { Outcome(<< << "launchctl", "unload", PLIST_PATH >> >>, FALSE),
      Outcome(<< << "launchctl", "unload", PLIST_PATH >> >>, hasPlist) }

\* an outcome of the other platforms: the crontab is not touched
WithCrontab(o, tab) ==
    [ executed |-> o.executed, plistExists |-> o.plistExists, crontab |-> tab ]

\* loadConfig may raise before anything runs; process.exit(1) follows
\* getNodePath when dist/index.js is missing
serviceInstall(os, hasScript, hasPlist, hours, tab) ==
    LET intervalHours == IF hours = 0 THEN 6 ELSE hours
        installed == IF os = "win32"
                     THEN { WithCrontab(o, tab) : o \in installWindows(intervalHours, hasPlist) }
                     ELSE IF os = "darwin"
                     THEN { WithCrontab(o, tab) : o \in installMac(hasPlist) }
                     ELSE installLinux(intervalHours, hasPlist, tab)
    IN  { LinuxOutcome(<< >>, hasPlist, tab) } \cup
        (IF ~ hasScript THEN { LinuxOutcome(<< getNodePath(os) >>, hasPlist, tab) }
         ELSE { LinuxOutcome(<< getNodePath(os) >> \o o.executed, o.plistExists, o.crontab) :
                  o \in installed })

serviceUninstall(os, hasPlist, tab) ==
    IF os = "win32" THEN { WithCrontab(o, tab) : o \in uninstallWindows(hasPlist) }
    ELSE IF os = "darwin" THEN { WithCrontab(o, tab) : o \in uninstallMac(hasPlist) }
    ELSE uninstallLinux(hasPlist, tab)

\* the entries of the log for the commands of one call
Executed(by, executed) == [ k \in DOMAIN executed |-> [ by |-> by, cmd |-> executed[k] ] ]

\* the lines a crontab can start with: entries of the user, one of them
\* indented, one with a quoted word and one with a quote left open, a blank
\* line, and what an older version of the agent left
MaxCronLines == 2
LinePlain == << "5", " ", "*", " ", "a" >>
LineIndented == << " ", "5", " ", "*", " ", "b" >>
LineQuoted == << "5", " ", "*", " ", "c", " ", DQuote, "d", DQuote >>
LineOpenQuote == << "5", " ", "*", " ", "e", " ", DQuote >>
LineStaleComment == << "#", " ", "M", "o", "n", "i", "t", "o", "r", "I", "A", "-", "A", "g", "e", "n", "t" >>
LineOldCron == << "5", " ", "*", " ", "~", "/", ".", "m", "o", "n", "i", "t", "o", "r", "-", "i", "a", "/", "x" >>
CronLines ==
    { LinePlain, LineIndented, LineQuoted, LineOpenQuote, LineStaleComment, LineOldCron, << >> }

\* the crontabs crontab -l can print: none, or lines, each ended by a newline
Crontabs ==
    { NoCrontab } \cup
    { [ exists |-> TRUE, text |-> Flatten([ k \in DOMAIN ls |-> ls[k] \o << NL >> ]) ] :
        ls \in SeqsUpTo(CronLines, MaxCronLines) }

InitService ==
    /\ platform \in Platforms
    /\ scriptExists \in BOOLEAN
    /\ plistExists \in BOOLEAN
    /\ commands = << >>
    /\ crontab \in IF platform = "linux" THEN Crontabs ELSE { NoCrontab }
    /\ AnalyzeIdle /\ PromptingIdle /\ WorkflowIdle /\ FlowIdle /\ TaskIdle
    /\ SkillsIdle /\ CollectIdle
    /\ SendIdle /\ AgentIdle /\ RunIdle /\ CollectorsIdle /\ SetupIdle

ServiceInstall ==
    /\ Len(commands) < MaxCommands
    /\ \E hours \in SyncIntervalHours :
          \E o \in serviceInstall(platform, scriptExists, plistExists, hours, crontab) :
             /\ commands' = commands \o Executed("serviceInstall", o.executed)
             /\ plistExists' = o.plistExists
             /\ crontab' = o.crontab
    /\ UNCHANGED << platform, scriptExists >>
    /\ UNCHANGED << analyzeVars, promptingVars, workflowVars, flowVars, taskVars >>
    /\ UNCHANGED << skillsVars, collectVars >>
    /\ UNCHANGED << sendVars, agentVars, runVars, collectorsVars, setupVars >>

ServiceUninstall ==
    /\ Len(commands) < MaxCommands
    /\ \E o \in serviceUninstall(platform, plistExists, crontab) :
          /\ commands' = commands \o Executed("serviceUninstall", o.executed)
          /\ plistExists' = o.plistExists
          /\ crontab' = o.crontab
    /\ UNCHANGED << platform, scriptExists >>
    /\ UNCHANGED << analyzeVars, promptingVars, workflowVars, flowVars, taskVars >>
    /\ UNCHANGED << skillsVars, collectVars >>
    /\ UNCHANGED << sendVars, agentVars, runVars, collectorsVars, setupVars >>

NextService == ServiceInstall \/ ServiceUninstall

SpecService == InitService /\ [][NextService]_vars

\* the command line holds the words, one after the other
HasWords(cmd, words) ==
    \E i \in 0..(Len(cmd) - Len(words)) : \A j \in DOMAIN words : cmd[i + j] = words[j]

\* the commands a call of the operation executed
CommandsBy(by) == SelectSeq(commands, LAMBDA e : e.by = by)

\* C20: on darwin, once serviceInstall has run with dist/index.js in place,
\* one of its commands holds "launchctl bootstrap" and none "launchctl
\* load"; once serviceUninstall has run, one of its commands holds
\* "launchctl bootout" and none "launchctl unload".
C20_MacUsesBootstrapAndBootout ==
    platform = "darwin" =>
        LET installs == CommandsBy("serviceInstall")
            uninstalls == CommandsBy("serviceUninstall")
        IN  /\ (scriptExists /\ installs # << >>) =>
                  /\ \E k \in DOMAIN installs :
                        HasWords(installs[k].cmd, << "launchctl", "bootstrap" >>)
                  /\ \A k \in DOMAIN installs :
                        ~ HasWords(installs[k].cmd, << "launchctl", "load" >>)
            /\ uninstalls # << >> =>
                  /\ \E k \in DOMAIN uninstalls :
                        HasWords(uninstalls[k].cmd, << "launchctl", "bootout" >>)
                  /\ \A k \in DOMAIN uninstalls :
                        ~ HasWords(uninstalls[k].cmd, << "launchctl", "unload" >>)

\* ------------------------------------------------------------------------
\* promptLengthDistribution on pools of up to 200 prompt lengths
\* ------------------------------------------------------------------------

\* the older sessions have one prompt in each of short, medium and long, the
\* recent ones a single detailed prompt
MaxSpread == 29
MaxDetailed == 113

SpreadRecord == PromptRecord(<< 2, 100, 500 >>, {})
DetailedRecord == PromptRecord(<< 2500 >>, {})

InitDistribution ==
    /\ \E n1 \in 0..MaxSpread, n2 \in 0..MaxDetailed :
          promptSessions = Repeat(SpreadRecord, n1) \o Repeat(DetailedRecord, n2)
    /\ workflowSessions = << >>
    /\ promptingMetrics = NotRun
    /\ workflowMetrics = NotRun
    /\ AnalyzeIdle /\ FlowIdle /\ TaskIdle
    /\ SkillsIdle /\ CollectIdle /\ ServiceIdle
    /\ SendIdle /\ AgentIdle /\ RunIdle /\ CollectorsIdle /\ SetupIdle

NextDistribution == AggregatePrompting

SpecDistribution == InitDistribution /\ [][NextDistribution]_vars

\* the sum of the four buckets of a promptLengthDistribution
DistributionSum(d) == d.short + d.medium + d.long + d.detailed

\* C25: for every non-empty pool of prompt lengths the four independently
\* rounded promptLengthDistribution percentages sum to a value of 99..102.
C25_DistributionSumBetween99And102 ==
    (promptingMetrics.done /\ ~ NoPromptLengths) =>
        DistributionSum(promptingMetrics.value.promptLengthDistribution) \in 99..102

\* ------------------------------------------------------------------------
\* flow pattern and the per-category session counters
\* ------------------------------------------------------------------------

\* C24: each session record of analyzeSessionWorkflow has flowPattern =
\* detectFlowPattern(its actions), and after aggregation fullFlowSessions is
\* at most each of sessionsWithPlan, sessionsWithVerification and
\* sessionsWithReview.
C24_FullFlowWithinCategoryCounters ==
    /\ \A k \in DOMAIN workflowSessions :
          workflowSessions[k].flowPattern = detectFlowPattern(workflowSessions[k].actions)
    /\ workflowMetrics.done =>
          LET w == workflowMetrics.value
          IN  /\ w.fullFlowSessions <= w.sessionsWithPlan
              /\ w.fullFlowSessions <= w.sessionsWithVerification
              /\ w.fullFlowSessions <= w.sessionsWithReview

\* full-cycle sessions among sessions that only ask for a verification
C24_Witness ==
    /\ workflowMetrics.done
    /\ workflowMetrics.value.fullFlowSessions >= 1
    /\ workflowMetrics.value.fullFlowSessions = workflowMetrics.value.sessionsWithPlan
    /\ workflowMetrics.value.fullFlowSessions < workflowMetrics.value.sessionsWithVerification

\* ------------------------------------------------------------------------
\* sender: sendMetrics as the steps of one call
\* ------------------------------------------------------------------------

maxRetries == 3

\* what a POST can meet: fetch rejects, or it resolves with a response
\* whose body response.text() reads or fails to read
NetworkError == [ threw |-> TRUE, ok |-> FALSE, status |-> 0, textRead |-> FALSE ]
Response(status, textRead) ==
    [ threw |-> FALSE, ok |-> status \in 200..299, status |-> status, textRead |-> textRead ]
Responses ==
    { NetworkError, Response(200, TRUE), Response(401, TRUE), Response(401, FALSE),
      Response(500, TRUE), Response(500, FALSE) }

\* the try block of one attempt: an OK response returns true before the
\* body is read; otherwise the body is read, and only then is the status
\* compared with 401; a rejection of fetch or of response.text() is caught
tryAttempt(response) ==
    IF response.threw THEN "caught"
    ELSE IF response.ok THEN "return true"
    ELSE IF ~ response.textRead THEN "caught"
    ELSE IF response.status = 401 THEN "return false"
    ELSE "retry"

\* the same delay before every retry
delayFlat(n) == 2000

\* const delay = attempt * 2000
delay(n) == n * 2000

InitSend ==
    /\ attempt = 1
    /\ sendPc = "post"
    /\ posts = << >>
    /\ waits = << >>
    /\ sendReturned = << >>
    /\ AnalyzeIdle /\ PromptingIdle /\ WorkflowIdle /\ FlowIdle /\ TaskIdle
    /\ SkillsIdle /\ CollectIdle /\ ServiceIdle
    /\ AgentIdle /\ RunIdle /\ CollectorsIdle /\ SetupIdle

\* one turn of the loop up to its timer, or up to the end of the call
Post ==
    /\ sendPc = "post"
    /\ \E response \in Responses :
          LET outcome == tryAttempt(response)
          IN  /\ posts' = Append(posts, response)
              /\ IF outcome = "return true"
                 THEN /\ sendPc' = "returned"
                      /\ sendReturned' = << TRUE >>
                      /\ UNCHANGED attempt
                 ELSE IF outcome = "return false"
                 THEN /\ sendPc' = "returned"
                      /\ sendReturned' = << FALSE >>
                      /\ UNCHANGED attempt
                 ELSE IF attempt < maxRetries
                 THEN /\ sendPc' = "wait"
                      /\ UNCHANGED << sendReturned, attempt >>
                 ELSE /\ sendPc' = "returned"
                      /\ sendReturned' = << FALSE >>
                      /\ attempt' = attempt + 1
    /\ UNCHANGED waits
    /\ UNCHANGED << analyzeVars, promptingVars, workflowVars, flowVars, taskVars >>
    /\ UNCHANGED << skillsVars, collectVars, serviceVars >>
    /\ UNCHANGED << agentVars, runVars, collectorsVars, setupVars >>

\* the timer fires and the loop goes on
Wait ==
    /\ sendPc = "wait"
    /\ waits' = Append(waits, delay(attempt))
    /\ attempt' = attempt + 1
    /\ sendPc' = "post"
    /\ UNCHANGED << posts, sendReturned >>
    /\ UNCHANGED << analyzeVars, promptingVars, workflowVars, flowVars, taskVars >>
    /\ UNCHANGED << skillsVars, collectVars, serviceVars >>
    /\ UNCHANGED << agentVars, runVars, collectorsVars, setupVars >>

NextSend == Post \/ Wait

SpecSend == InitSend /\ [][NextSend]_vars

\* every request completes or fails, and every timer fires
SpecSendFair == SpecSend /\ WF_vars(Post) /\ WF_vars(Wait)

\* the attempts made so far: at most three, none after an OK response, each
\* failure other than a 401 followed by another attempt until the third, a
\* wait of 2000 * k ms after attempt k and none after the last, and the
\* result true iff the last attempt met an OK response
SendAttemptsAsClaimed ==
    /\ Len(posts) <= 3
    /\ \A k \in 1..(Len(posts) - 1) : ~ posts[k].ok
    /\ waits = [ k \in 1..Len(waits) |-> 2000 * k ]
    /\ Len(waits) =
          IF sendPc = "post" THEN Len(posts) ELSE Len(posts) - 1
    /\ sendPc = "wait" => Len(posts) < 3
    /\ sendPc = "returned" =>
          /\ sendReturned = << posts[Len(posts)].ok >>
          /\ (~ posts[Len(posts)].ok /\ posts[Len(posts)].status # 401) => Len(posts) = 3
    /\ sendPc # "returned" => sendReturned = << >>

\* C26: provided every request completes or fails, sendMetrics ends after at
\* most three POST attempts and returns true iff its last attempt met an OK
\* response; an OK response ends the call at once, any other response but a
\* 401 and any network error lead to the next attempt, the wait of 2 s times
\* the attempt number happens only between attempts, and three failures
\* return false.
C26_SendEndsWithinThreeAttempts ==
    /\ [] SendAttemptsAsClaimed
    /\ <> (sendPc = "returned")

\* a network error, a 500, then an OK response
C26_Witness ==
    /\ sendPc = "returned"
    /\ Len(posts) = 3
    /\ posts[1].threw /\ posts[2].status = 500 /\ posts[3].ok
    /\ sendReturned = << TRUE >>
    /\ waits = << 2000, 4000 >>

\* C27: an attempt answered with status 401 is the last one: sendMetrics
\* returns false at once, with no further POST and no wait after it,
\* whichever attempt met the 401.
C27_Status401ReturnsFalseAtOnce ==
    \A k \in DOMAIN posts :
        (~ posts[k].threw /\ posts[k].status = 401) =>
            /\ k = Len(posts)
            /\ sendPc = "returned"
            /\ sendReturned = << FALSE >>
            /\ Len(waits) = k - 1

\* ------------------------------------------------------------------------
\* index: run-once processes on one configuration file
\*
\* Time is in hours and advances in steps of five. new Date().toISOString() keeps the millisecond of
\* Date.now() and new Date(text).getTime() gives it back, so a stored date
\* is the clock value it was taken from.
\* ------------------------------------------------------------------------

MIN_HOURS_BETWEEN_SENDS == 15

MaxInvocations == 2
MaxClock == 20

\* results.length after runCollectors: no result, or some
ResultCounts == { 0, 1 }

\* an AgentConfig; the optional fields are lists of at most one value
Config(lastSentAt) ==
    [ serverUrl |-> "https://jakite.tech", authToken |-> "token", syncIntervalHours |-> 6,
      enabledCollectors |-> << "claude-code", "cursor", "vscode-copilot" >>,
      consentGivenAt |-> << 0 >>, encryptionKey |-> << >>, lastSentAt |-> lastSentAt ]

\* the guard blocking a send at exactly the minimum distance too
tooSoonInclusive(config, now) ==
    /\ Len(config.lastSentAt) > 0
    /\ now - config.lastSentAt[1] <= MIN_HOURS_BETWEEN_SENDS

\* the guard of runOnce: config.lastSentAt is there and less than
\* MIN_HOURS_BETWEEN_SENDS hours old
tooSoon(config, now) ==
    /\ Len(config.lastSentAt) > 0
    /\ now - config.lastSentAt[1] < MIN_HOURS_BETWEEN_SENDS

\* a process that has not loaded the configuration yet
NotStarted ==
    [ pc |-> "start", config |-> << >>, startedAt |-> 0, collected |-> << >>,
      sent |-> << >>, saved |-> FALSE ]

InitRunOnce ==
    /\ clock = 0
    /\ configFile \in { << >>, << Config(<< >>) >>, << Config(<< 0 >>) >> }
    /\ invocations = [ i \in 1..MaxInvocations |-> NotStarted ]
    /\ sends = << >>
    /\ AnalyzeIdle /\ PromptingIdle /\ WorkflowIdle /\ FlowIdle /\ TaskIdle
    /\ SkillsIdle /\ CollectIdle /\ ServiceIdle
    /\ SendIdle /\ CollectorsIdle /\ SetupIdle

\* loadConfig and the guard; loadConfig raises without a file
Start(i) ==
    /\ invocations[i].pc = "start"
    /\ invocations' =
          [ invocations EXCEPT ![i] =
              IF configFile = << >> THEN [ @ EXCEPT !.pc = "threw" ]
              ELSE [ @ EXCEPT !.config = configFile,
                              !.startedAt = clock,
                              !.pc = IF tooSoon(configFile[1], clock) THEN "done"
                                     ELSE "collect" ] ]
    /\ UNCHANGED << clock, configFile, sends >>

\* runCollectors returns some results, or none
Collect(i) ==
    /\ invocations[i].pc = "collect"
    /\ \E n \in ResultCounts :
          invocations' = [ invocations EXCEPT ![i].collected = << n >>,
                                              ![i].pc = IF n > 0 THEN "send" ELSE "done" ]
    /\ UNCHANGED << clock, configFile, sends >>

\* await sendMetrics(...): its result is dropped
Send(i) ==
    /\ invocations[i].pc = "send"
    /\ \E ok \in BOOLEAN :
          /\ sends' = Append(sends, [ by |-> i, at |-> clock, ok |-> ok ])
          /\ invocations' = [ invocations EXCEPT ![i].sent = << ok >>, ![i].pc = "save" ]
    /\ UNCHANGED << clock, configFile >>

\* config.lastSentAt = new Date().toISOString(); saveConfig(config), on the
\* configuration the process loaded
Save(i) ==
    /\ invocations[i].pc = "save"
    /\ configFile' = << [ invocations[i].config[1] EXCEPT !.lastSentAt = << clock >> ] >>
    /\ invocations' = [ invocations EXCEPT ![i].saved = TRUE, ![i].pc = "done" ]
    /\ UNCHANGED << clock, sends >>

Tick ==
    /\ clock + 5 <= MaxClock
    /\ clock' = clock + 5
    /\ UNCHANGED << configFile, invocations, sends >>

NextRunOnce ==
    /\ \/ \E i \in 1..MaxInvocations : Start(i) \/ Collect(i) \/ Send(i) \/ Save(i)
       \/ Tick
    /\ UNCHANGED << analyzeVars, promptingVars, workflowVars, flowVars, taskVars >>
    /\ UNCHANGED << skillsVars, collectVars, serviceVars >>
    /\ UNCHANGED << sendVars, collectorsVars, setupVars >>

SpecRunOnce == InitRunOnce /\ [][NextRunOnce]_vars

\* the processes that loaded a configuration
Loaded == { i \in DOMAIN invocations : invocations[i].pc \notin { "start", "threw" } }

\* the sends a process made
SendsBy(i) == { k \in DOMAIN sends : sends[k].by = i }

\* C21: a run-once invocation changes lastSentAt only when sendMetrics
\* returned true; after a failed send the configuration is left as it was.
C21_LastSentAtOnlyAfterSuccessfulSend ==
    \A i \in DOMAIN invocations :
        invocations[i].saved => invocations[i].sent = << TRUE >>

\* C22: an invocation starting less than 15 hours after the lastSentAt it
\* loaded runs no collector, sends nothing and saves nothing; one with no
\* lastSentAt, or starting 15 hours or more after it, runs the collectors
\* and sends iff at least one result was collected; with no result nothing
\* is sent and nothing saved.
C22_SendGuard ==
    \A i \in Loaded :
        LET inv == invocations[i]
            last == inv.config[1].lastSentAt
            blocked == last # << >> /\ inv.startedAt - last[1] < 15
        IN  /\ blocked =>
                  /\ inv.pc = "done"
                  /\ inv.collected = << >>
                  /\ SendsBy(i) = {}
                  /\ ~ inv.saved
            /\ ~ blocked =>
                  /\ inv.pc = "collect" \/ inv.collected # << >>
                  /\ inv.pc = "done" =>
                        /\ (inv.collected[1] > 0) <=> (SendsBy(i) # {})
                        /\ inv.collected[1] = 0 => ~ inv.saved
                  /\ inv.saved => SendsBy(i) # {}

\* one process stopped by the guard 10 hours after the last send, another
\* sending 15 hours after it
C22_Witness ==
    \E i, j \in Loaded :
        /\ invocations[i].config[1].lastSentAt = << 0 >>
        /\ invocations[i].startedAt = 10
        /\ invocations[i].pc = "done"
        /\ invocations[j].config[1].lastSentAt = << 0 >>
        /\ invocations[j].startedAt = 15
        /\ invocations[j].saved
        /\ SendsBy(j) # {}

\* C23: any two sends made by run-once invocations are at least 15 hours
\* apart, under every interleaving of the invocations.
C23_SendsFifteenHoursApart ==
    \A a, b \in DOMAIN sends :
        a < b => sends[b].at - sends[a].at >= 15

\* ------------------------------------------------------------------------
\* index: runCollectors, one name of the list at a time
\* ------------------------------------------------------------------------

MaxEnabled == 3

\* the keys of the object literal collectors
CollectorNames == { "claude-code", "cursor", "vscode-copilot" }

\* names the literal does not hold: one found nowhere, and properties it
\* inherits from Object.prototype
OtherNames == { "windsurf", "toString", "constructor", "hasOwnProperty", "__proto__" }

\* values put in results: what a collector returns, and what the inherited
\* functions return when called with no this and no argument
CollectorResult(name) == [ tool |-> name, value |-> "CollectorResult", hasMetrics |-> TRUE ]
ObjectUndefined == [ tool |-> "", value |-> "[object Undefined]", hasMetrics |-> FALSE ]
EmptyObject == [ tool |-> "", value |-> "{}", hasMetrics |-> FALSE ]

\* a call that raised, and a call that returned (or resolved with) v
Raised == [ threw |-> TRUE, value |-> EmptyObject ]
Resolved(v) == [ threw |-> FALSE, value |-> v ]

\* collectors[name]: whether the value is truthy, and what calling it can
\* do. A collector returns its result or raises; Object.prototype.toString
\* returns "[object Undefined]"; the constructor, Object, returns a new
\* object; hasOwnProperty raises on an undefined this; __proto__ is
\* Object.prototype, which is no function, so the call raises
collector(name) ==
    IF name \in CollectorNames
    THEN [ found |-> TRUE, calls |-> { Raised, Resolved(CollectorResult(name)) } ]
    ELSE IF name = "toString" THEN [ found |-> TRUE, calls |-> { Resolved(ObjectUndefined) } ]
    ELSE IF name = "constructor" THEN [ found |-> TRUE, calls |-> { Resolved(EmptyObject) } ]
    ELSE IF name \in { "hasOwnProperty", "__proto__" } THEN [ found |-> TRUE, calls |-> { Raised } ]
    ELSE [ found |-> FALSE, calls |-> {} ]

InitCollectors ==
    /\ enabled \in SeqsUpTo(CollectorNames \cup OtherNames, MaxEnabled)
    /\ cursor = 0
    /\ results = << >>
    /\ called = << >>
    /\ AnalyzeIdle /\ PromptingIdle /\ WorkflowIdle /\ FlowIdle /\ TaskIdle
    /\ SkillsIdle /\ CollectIdle /\ ServiceIdle
    /\ SendIdle /\ AgentIdle /\ RunIdle /\ SetupIdle

\* one turn of the loop: a falsy value is skipped; a result is pushed before
\* its summary is printed, and what the call or the summary raises (reading
\* a field of result.metrics when there is no metrics) is caught
RunCollector ==
    /\ cursor < Len(enabled)
    /\ LET name == enabled[cursor + 1]
           found == collector(name)
       IN  IF ~ found.found
           THEN UNCHANGED << results, called >>
           ELSE \E call \in found.calls :
                   /\ called' = Append(called, [ name |-> name, threw |-> call.threw ])
                   /\ results' = IF call.threw THEN results ELSE Append(results, call.value)
    /\ cursor' = cursor + 1
    /\ UNCHANGED enabled
    /\ UNCHANGED << analyzeVars, promptingVars, workflowVars, flowVars, taskVars >>
    /\ UNCHANGED << skillsVars, collectVars, serviceVars >>
    /\ UNCHANGED << sendVars, agentVars, runVars, setupVars >>

NextCollectors == RunCollector

SpecCollectors == InitCollectors /\ [][NextCollectors]_vars

\* the names of the list taken so far that are collectors
KnownTaken == SelectSeq(SubSeq(enabled, 1, cursor), LAMBDA n : n \in CollectorNames)

\* the calls of collectors that did not raise
Completed == SelectSeq(called, LAMBDA c : c.name \in CollectorNames /\ ~ c.threw)

\* C28: the results are, in the order of the enabled list, exactly the
\* results of the known collectors that completed without raising; an
\* unknown name is skipped, and neither it nor a collector that raises keeps
\* a later collector from running.
C28_ResultsAreThoseOfCompletedCollectors ==
    /\ results = [ k \in DOMAIN Completed |-> CollectorResult(Completed[k].name) ]
    /\ KnownTaken =
          [ k \in 1..Len(SelectSeq(called, LAMBDA c : c.name \in CollectorNames)) |->
              SelectSeq(called, LAMBDA c : c.name \in CollectorNames)[k].name ]

\* ------------------------------------------------------------------------
\* index: setup, as run from the command line
\* ------------------------------------------------------------------------

\* what can be typed at a question
Answers ==
    { << "s" >>,
      << "S" >>,
      << "s", "i" >>,
      << "S", "I" >>,
      << "s", "I" >>,
      << "y" >>,
      << "Y" >>,
      << "y", "e", "s" >>,
      << "Y", "e", "S" >>,
      << >>,
      << "n" >>,
      << "n", "o" >>,
      << "o", "k" >>,
      << " ", "s" >> }

\* main calls setup(args[1], args[2]): the third parameter has its default
skipConsent == FALSE

\* the test on the answer to the reconfigure question
reconfigures(answer) ==
    ~ (toLowerCase(answer) # << "s" >> /\ toLowerCase(answer) # << "s", "i" >>)

\* a consent question whose default is yes
askForConsentDefaultYes(answer) ==
    \/ answer = << >>
    \/ toLowerCase(answer) \in { << "s" >>, << "s", "i" >>, << "y" >>, << "y", "e", "s" >> }

\* what askForConsent resolves with
askForConsent(answer) ==
    \/ toLowerCase(answer) = << "s" >>
    \/ toLowerCase(answer) = << "s", "i" >>
    \/ toLowerCase(answer) = << "y" >>
    \/ toLowerCase(answer) = << "y", "e", "s" >>

\* what GET /api/agent/config brings: nothing when the request fails or the
\* answer is not OK, or the fields of the JSON body
ServerConfigs ==
    { [ ok |-> FALSE, enabledCollectors |-> << >>, encryptionKey |-> << >> ],
      [ ok |-> TRUE, enabledCollectors |-> << >>, encryptionKey |-> << >> ],
      [ ok |-> TRUE, enabledCollectors |-> << "cursor" >>, encryptionKey |-> << "key" >> ] }

\* the configuration setup builds
setupConfig(token, url, now, server) ==
    [ serverUrl |-> url, authToken |-> token, syncIntervalHours |-> 6,
      enabledCollectors |->
          IF server.ok /\ Len(server.enabledCollectors) > 0 THEN server.enabledCollectors
          ELSE << "claude-code", "cursor", "vscode-copilot" >>,
      consentGivenAt |-> << now >>,
      encryptionKey |-> IF server.ok THEN server.encryptionKey ELSE << >>,
      lastSentAt |-> << >> ]

\* the configuration files setup can find, written at hour 0
ExistingConfigFiles == { << >>, << Config(<< >>) >>, << Config(<< 0 >>) >> }

\* setup stands at its first question
InitSetup ==
    /\ clock = 5
    /\ configFile \in ExistingConfigFiles
    /\ setupPc = IF configFile # << >> THEN "reconfigure"
                 ELSE IF skipConsent THEN "fetch" ELSE "consent"
    /\ reconfigureAnswer = << >>
    /\ consentAnswer = << >>
    /\ AnalyzeIdle /\ PromptingIdle /\ WorkflowIdle /\ FlowIdle /\ TaskIdle
    /\ SkillsIdle /\ CollectIdle /\ ServiceIdle
    /\ SendIdle /\ RunIdle /\ CollectorsIdle

AnswerReconfigure ==
    /\ setupPc = "reconfigure"
    /\ \E answer \in Answers :
          /\ reconfigureAnswer' = << answer >>
          /\ setupPc' = IF ~ reconfigures(answer) THEN "cancelled"
                        ELSE IF skipConsent THEN "fetch" ELSE "consent"
    /\ UNCHANGED << consentAnswer, agentVars >>

AnswerConsent ==
    /\ setupPc = "consent"
    /\ \E answer \in Answers :
          /\ consentAnswer' = << answer >>
          /\ setupPc' = IF askForConsent(answer) THEN "fetch" ELSE "cancelled"
    /\ UNCHANGED << reconfigureAnswer, agentVars >>

\* the server is asked for its configuration, and the file is written
FetchAndSave ==
    /\ setupPc = "fetch"
    /\ \E server \in ServerConfigs :
          configFile' = << setupConfig("token", "https://jakite.tech", clock, server) >>
    /\ setupPc' = "saved"
    /\ UNCHANGED << clock, reconfigureAnswer, consentAnswer >>

NextSetup ==
    /\ AnswerReconfigure \/ AnswerConsent \/ FetchAndSave
    /\ UNCHANGED << analyzeVars, promptingVars, workflowVars, flowVars, taskVars >>
    /\ UNCHANGED << skillsVars, collectVars, serviceVars >>
    /\ UNCHANGED << sendVars, runVars, collectorsVars >>

SpecSetup == InitSetup /\ [][NextSetup]_vars

\* the answer is the word, in any mix of cases
SpelledAs(answer, word) ==
    /\ Len(answer) = Len(word)
    /\ \A k \in DOMAIN word :
          \/ answer[k] = word[k]
          \/ \E j \in DOMAIN LowerSeq : LowerSeq[j] = word[k] /\ UpperSeq[j] = answer[k]

\* C29: setup has written the configuration only if the privacy question
\* was answered s, si, y or yes in any case, and, when a configuration was
\* there, the reconfigure question s or si; otherwise the file is the one
\* found, and after another answer to the reconfigure question the privacy
\* question is not asked; a written configuration has consentGivenAt.
C29_ConfigurationWrittenOnlyWithConsent ==
    /\ setupPc = "saved" =>
          /\ consentAnswer # << >>
          /\ \E word \in { << "s" >>, << "s", "i" >>, << "y" >>, << "y", "e", "s" >> } :
                SpelledAs(consentAnswer[1], word)
          /\ configFile # << >>
          /\ configFile[1].consentGivenAt = << clock >>
    /\ setupPc # "saved" => configFile \in ExistingConfigFiles
    /\ (configFile # << >> /\ setupPc # "saved" /\ reconfigureAnswer = << >>) =>
          consentAnswer = << >>
    /\ reconfigureAnswer # << >> =>
          \/ SpelledAs(reconfigureAnswer[1], << "s" >>)
          \/ SpelledAs(reconfigureAnswer[1], << "s", "i" >>)
          \/ setupPc = "cancelled" /\ consentAnswer = << >>

\* an existing configuration replaced after SI and YeS
C29_Witness ==
    /\ setupPc = "saved"
    /\ reconfigureAnswer = << << "S", "I" >> >>
    /\ consentAnswer = << << "Y", "e", "S" >> >>
    /\ configFile[1].consentGivenAt = << 5 >>
    /\ configFile[1].enabledCollectors = << "cursor" >>

\* ------------------------------------------------------------------------
\* the crontab across installs and uninstalls on Linux
\* ------------------------------------------------------------------------

\* the non-blank lines of a crontab that name neither the task nor monitor-ia
Unrelated(text) ==
    SelectSeq(LinesOf(text),
              LAMBDA l : ~ IsBlank(l) /\ ~ stringIncludes(l, TaskNameText)
                         /\ ~ stringIncludes(l, MonitorIaText))

\* the lines of a, in their order, are among the lines of b
RECURSIVE IsSubsequence(_, _)
IsSubsequence(a, b) ==
    IF a = << >> THEN TRUE
    ELSE IF b = << >> THEN FALSE
    ELSE IF a[1] = b[1] THEN IsSubsequence(Tail(a), Tail(b))
    ELSE IsSubsequence(a, Tail(b))

\* the two lines of the agent
IsAgentComment(l) == l = << "#", " " >> \o TaskNameText
IsRunOnceLine(l) == stringIncludes(l, << "r", "u", "n", "-", "o", "n", "c", "e" >>)

\* the operation whose commands ended the log
LastBy == commands[Len(commands)].by

\* C30: on Linux, the crontab an install writes has exactly one
\* '# MonitorIA-Agent' line and exactly one run-once line, however many
\* installs ran before; the crontab an uninstall writes has no line of the
\* agent; and both keep, in their order, every non-blank line of the crontab
\* they found that names neither MonitorIA-Agent nor monitor-ia.
C30_InstallIsIdempotentAndKeepsOtherLines ==
    [][ (platform = "linux" /\ crontab' # crontab) =>
          LET before == IF crontab.exists THEN Unrelated(crontab.text) ELSE << >>
              after == LinesOf(crontab'.text)
          IN  /\ IsSubsequence(before, after)
              /\ IF LastBy' = "serviceInstall"
                 THEN /\ Len(SelectSeq(after, IsAgentComment)) = 1
                      /\ Len(SelectSeq(after, IsRunOnceLine)) = 1
                 ELSE \A k \in DOMAIN after :
                         /\ ~ stringIncludes(after[k], TaskNameText)
                         /\ ~ stringIncludes(after[k], MonitorIaText) ]_vars

\* the part on the agent's own lines alone: one comment line and one
\* run-once line after an install, no line of the agent after an uninstall
AgentLinesOnceAndNoneAfterUninstall ==
    [][ (platform = "linux" /\ crontab' # crontab) =>
          LET after == LinesOf(crontab'.text)
          IN  IF LastBy' = "serviceInstall"
              THEN /\ Len(SelectSeq(after, IsAgentComment)) = 1
                   /\ Len(SelectSeq(after, IsRunOnceLine)) = 1
              ELSE \A k \in DOMAIN after :
                      /\ ~ stringIncludes(after[k], TaskNameText)
                      /\ ~ stringIncludes(after[k], MonitorIaText) ]_vars

=============================================================================
